---------------------------- MODULE Spec2Model ----------------------------
(***************************************************************************)
(* A model of the SysY compiler's middle and back end:                     *)
(*   - KoopaBuilder and SymbolTable (include/ir/ir_builder.hpp,            *)
(*     include/ir/symbol_table.hpp),                                       *)
(*   - the codeGen / CalcValue / flatten methods of the AST                *)
(*     (src/ir/codegen.cpp),                                               *)
(*   - the stack-frame pre-pass of the target generator                    *)
(*     (src/backend/backend.cpp).                                          *)
(* The IR text buffer is kept as a sequence of lines; a line is the record *)
(* [op, res, args] of the fields that fmt::format puts into that line.     *)
(* Names (%k, @ident_k, %prefix_k) are built as strings, as the code does. *)
(***************************************************************************)
EXTENDS Integers, Sequences, FiniteSets, TLC

VARIABLES
  builder,   \* the ir::KoopaBuilder object (buffer, counters, flag, loopstk, _symtab)
  unit,      \* the input of the last operation (the AST child lowered last)
  nchild,    \* how many operations have been applied
  flat,      \* the vector returned by the last InitValStmtAST::flatten
  calc,      \* the outcome [err, val] of the last CalcValue
  run,       \* the outcome of executing the IR of the function lowered last
  generator, \* the backend::TargetCodeGen object (frame sizes, stkMap, buffer)
  main,      \* the run of the driver: position, argv, config, exit status, output file
  found      \* the last symbol-table call and what it returned

vars == <<builder, unit, nchild, flat, calc, run, generator, main, found>>

-----------------------------------------------------------------------------
(* Types                                                                   *)

IntType == [t |-> "int"]
VoidType == [t |-> "void"]
PtrType(target) == [t |-> "ptr", target |-> target]
ArrayType(base, len) == [t |-> "array", base |-> base, len |-> len]

is_int(ty) == ty.t = "int"
is_void(ty) == ty.t = "void"
is_ptr(ty) == ty.t = "ptr"
is_array(ty) == ty.t = "array"

RECURSIVE toKoopa(_)
toKoopa(ty) ==
  CASE ty.t = "int" -> "i32"
    [] ty.t = "ptr" -> "*" \o toKoopa(ty.target)
    [] ty.t = "array" -> "[" \o toKoopa(ty.base) \o ", " \o ToString(ty.len) \o "]"
    [] OTHER -> ""

-----------------------------------------------------------------------------
(* Symbol table                                                            *)

Symbol(name, irName, type, kind, isConst, val) ==
  [name |-> name, irName |-> irName, type |-> type, kind |-> kind,
   isConst |-> isConst, constValue |-> val]

\* the nullptr that lookup returns
NoSymbol == [name |-> "", irName |-> "", type |-> VoidType, kind |-> "None",
             isConst |-> FALSE, constValue |-> 0]

EmptyScope == [n \in {} |-> NoSymbol]

contains(scope, name) == name \in DOMAIN scope

\* Log::panic throws CompileError: the first error is kept and every later
\* builder operation of the aborted lowering is skipped
panic(b, msg) == IF b.err # "" THEN b ELSE [b EXCEPT !.err = msg]

enterScope(b) ==
  IF b.err # "" THEN b ELSE [b EXCEPT !.scopes = Append(@, EmptyScope)]

exitScopePopsGlobal(b) ==
  IF b.err # "" THEN b ELSE [b EXCEPT !.scopes = SubSeq(@, 1, Len(@) - 1)]

exitScope(b) ==
  IF b.err # "" THEN b
  ELSE IF Len(b.scopes) > 1
       THEN [b EXCEPT !.scopes = SubSeq(@, 1, Len(@) - 1)]
       ELSE b

isGlobalScope(b) == Len(b.scopes) = 1

\* a define that looks for the name in every frame
defineChecksEveryScope(b, name, irName, type, kind, isConst, val) ==
  IF b.err # "" THEN b
  ELSE IF \E i \in 1..Len(b.scopes) : contains(b.scopes[i], name)
       THEN panic(b, "Semantic Error: Redefinition of " \o name)
       ELSE [b EXCEPT !.scopes[Len(b.scopes)] =
               (name :> Symbol(name, irName, type, kind, isConst, val)) @@ @]

define(b, name, irName, type, kind, isConst, val) ==
  IF b.err # "" THEN b
  ELSE IF contains(b.scopes[Len(b.scopes)], name)
       THEN panic(b, "Semantic Error: Redefinition of " \o name)
       ELSE [b EXCEPT !.scopes[Len(b.scopes)] =
               (name :> Symbol(name, irName, type, kind, isConst, val)) @@ @]

defineGlobal(b, name, irName, type, kind, isConst, val) ==
  IF b.err # "" THEN b
  ELSE IF contains(b.scopes[1], name)
       THEN panic(b, "Semantic Error: Redefinition of " \o name)
       ELSE [b EXCEPT !.scopes[1] =
               (name :> Symbol(name, irName, type, kind, isConst, val)) @@ @]

RECURSIVE lookupFrom(_, _, _)
lookupFrom(scopes, i, name) ==
  IF i = 0 THEN NoSymbol
  ELSE IF contains(scopes[i], name) THEN scopes[i][name]
       ELSE lookupFrom(scopes, i - 1, name)

\* a lookup that sees the global frame only
lookupGlobalOnly(b, name) == lookupFrom(b.scopes, 1, name)

lookup(b, name) == lookupFrom(b.scopes, Len(b.scopes), name)

-----------------------------------------------------------------------------
(* KoopaBuilder                                                            *)

Line(op, res, args) == [op |-> op, res |-> res, args |-> args]

LibraryFunctions ==
  <<  <<"getint", IntType>>, <<"getch", IntType>>, <<"getarray", IntType>>,
      <<"putint", VoidType>>, <<"putch", VoidType>>, <<"putarray", VoidType>>,
      <<"starttime", VoidType>>, <<"stoptime", VoidType>> >>

RECURSIVE registerLibrary(_, _)
registerLibrary(b, i) ==
  IF i > Len(LibraryFunctions) THEN b
  ELSE registerLibrary(
         defineGlobal([b EXCEPT !.buffer =
                         Append(@, Line("decl", "@" \o LibraryFunctions[i][1], <<>>))],
                      LibraryFunctions[i][1], "", LibraryFunctions[i][2],
                      "Func", FALSE, 0),
         i + 1)

KoopaBuilder ==
  registerLibrary(
    [buffer |-> <<>>, count_reg |-> 0, count_name |-> 0, count_label |-> 0,
     closed |-> FALSE, loopstk |-> <<>>, scopes |-> <<EmptyScope>>,
     err |-> "", out |-> ""], 1)

append(b, line) ==
  IF b.err # "" THEN b ELSE [b EXCEPT !.buffer = Append(@, line)]

\* the string a codeGen call returns is carried in field out
ret(b, s) == IF b.err # "" THEN b ELSE [b EXCEPT !.out = s]

newRegNoIncrement(b) ==
  IF b.err # "" THEN b
  ELSE [b EXCEPT !.out = "%" \o ToString(b.count_reg)]

newReg(b) ==
  IF b.err # "" THEN b
  ELSE [b EXCEPT !.out = "%" \o ToString(b.count_reg), !.count_reg = @ + 1]

newVar(b, ident) ==
  IF b.err # "" THEN b
  ELSE [b EXCEPT !.out = "@" \o ident \o "_" \o ToString(b.count_name),
                 !.count_name = @ + 1]

allocLabelId(b) ==
  IF b.err # "" THEN b ELSE [b EXCEPT !.count_label = @ + 1]

newLabel(prefix, id) == "%" \o prefix \o "_" \o ToString(id)

isBlockClose(b) == b.closed
setBlockCloseForgets(b) == b
setBlockClose(b) == IF b.err # "" THEN b ELSE [b EXCEPT !.closed = TRUE]
clearBlockClose(b) == IF b.err # "" THEN b ELSE [b EXCEPT !.closed = FALSE]

pushLoop(b, cTar, bTar) ==
  IF b.err # "" THEN b
  ELSE [b EXCEPT !.loopstk =
          Append(@, [continueTarget |-> cTar, breakTarget |-> bTar])]

popLoopKeeps(b) == b

popLoop(b) ==
  IF b.err # "" THEN b
  ELSE [b EXCEPT !.loopstk = SubSeq(@, 1, Len(@) - 1)]

getBreakTarget(b) ==
  IF b.err # "" THEN b
  ELSE IF b.loopstk = <<>>
       THEN panic(b, "Semantic Error: 'break' statement not within loop.")
       ELSE ret(b, b.loopstk[Len(b.loopstk)].breakTarget)

getContinueTarget(b) ==
  IF b.err # "" THEN b
  ELSE IF b.loopstk = <<>>
       THEN panic(b, "Semantic Error: 'continue' statement not within loop.")
       ELSE ret(b, b.loopstk[Len(b.loopstk)].continueTarget)

resetCount(b) ==
  IF b.err # "" THEN b
  ELSE [b EXCEPT !.count_reg = 0, !.count_name = 0, !.count_label = 0,
                 !.closed = FALSE]

\* append the line "res = op args" for the name res returned last (b.out)
appendDef(b, op, args) == append(b, Line(op, b.out, args))

-----------------------------------------------------------------------------
(* AST nodes (the fields the codeGen methods read)                          *)

Null == [kind |-> "Null"]
Number(v) == [kind |-> "Number", val |-> v]
LVal(ident, indices) == [kind |-> "LVal", ident |-> ident, indices |-> indices]
Unary(op, rhs) == [kind |-> "Unary", op |-> op, rhs |-> rhs]
Binary(op, lhs, rhs) == [kind |-> "Binary", op |-> op, lhs |-> lhs, rhs |-> rhs]
FuncCall(ident, args) == [kind |-> "FuncCall", ident |-> ident, args |-> args]
Block(items) == [kind |-> "Block", items |-> items, createScope |-> TRUE]
ReturnStmt(expr) == [kind |-> "Return", expr |-> expr]
AssignStmt(lval, expr) == [kind |-> "Assign", lval |-> lval, expr |-> expr]
ExprStmt(expr) == [kind |-> "ExprStmt", expr |-> expr]
IfStmt(cond, thenS, elseS) ==
  [kind |-> "If", cond |-> cond, thenS |-> thenS, elseS |-> elseS]
WhileStmt(cond, body) == [kind |-> "While", cond |-> cond, body |-> body]
BreakStmt == [kind |-> "Break"]
ContinueStmt == [kind |-> "Continue"]
InitVal(expr, list) == [kind |-> "InitVal", expr |-> expr, initialize_list |-> list]
ScalarDef(ident, isConst, initVal) ==
  [kind |-> "ScalarDef", ident |-> ident, is_const |-> isConst, initVal |-> initVal]
ArrayDef(ident, isConst, suffix, init) ==
  [kind |-> "ArrayDef", ident |-> ident, is_const |-> isConst,
   array_suffix |-> suffix, init_val |-> init]
Decl(btype, defs) == [kind |-> "Decl", btype |-> btype, defs |-> defs]
FuncParam(btype, ident, isPtr, indices) ==
  [kind |-> "FuncParam", btype |-> btype, ident |-> ident, is_ptr |-> isPtr,
   is_const |-> FALSE, indices |-> indices]
FuncDef(btype, ident, params, block) ==
  [kind |-> "FuncDef", btype |-> btype, ident |-> ident, params |-> params,
   block |-> block]

opToString(op) ==
  CASE op = "Add" -> "add" [] op = "Sub" -> "sub" [] op = "Mul" -> "mul"
    [] op = "Div" -> "div" [] op = "Mod" -> "mod" [] op = "Lt" -> "lt"
    [] op = "Gt" -> "gt" [] op = "Le" -> "le" [] op = "Ge" -> "ge"
    [] op = "Eq" -> "eq" [] op = "Ne" -> "ne" [] op = "And" -> "and"
    [] op = "Or" -> "or" [] OTHER -> "?"

-----------------------------------------------------------------------------
(* Expressions: codeGen                                                     *)

RECURSIVE codeGen(_, _)

NumberCodeGen(b, n) == ret(b, ToString(n.val))

\* the state of an address walk after the instruction that made b.out
WalkState(b, ty) == [b |-> b, ptr |-> b.out, ty |-> ty]

\* nxt_ptr = newReg(); append "nxt_ptr = op cur_ptr, idx_val", where idx_val
\* is the name the index expression returned (b1.out)
IndexInst(b1, op, cur_ptr) == appendDef(newReg(b1), op, <<cur_ptr, b1.out>>)

\* the index loop of LValAST::codeGen, from index i on; st = [b, ptr, ty]
RECURSIVE LValWalk(_, _, _, _)
LValWalk(st, n, sym, i) ==
  IF i > Len(n.indices) \/ st.b.err # "" THEN st
  ELSE LET first == i = 1 /\ is_ptr(sym.type)
           ty == IF ~first /\ is_array(st.ty) THEN st.ty.base ELSE st.ty
       IN LValWalk(WalkState(IndexInst(codeGen(st.b, n.indices[i]),
                                       IF first THEN "getptr" ELSE "getelemptr",
                                       st.ptr),
                             ty),
                   n, sym, i + 1)

\* the load of a pointer-typed symbol that starts both address walks
LoadPtr(b, sym) ==
  IF is_ptr(sym.type)
  THEN WalkState(appendDef(newReg(b), "load", <<sym.irName>>), sym.type.target)
  ELSE [b |-> b, ptr |-> sym.irName, ty |-> sym.type]

LValNoDecay(b, cur_ptr) == ret(b, cur_ptr)

LValDecay(b, cur_ptr) == appendDef(newReg(b), "getelemptr", <<cur_ptr, "0">>)

\* what LValAST::codeGen returns after the index loop
LValResult(st, is_bare_ptr_param) ==
  IF st.b.err # "" THEN st.b
  ELSE IF is_int(st.ty) /\ ~is_bare_ptr_param
  THEN appendDef(newReg(st.b), "load", <<st.ptr>>)
  ELSE IF is_bare_ptr_param THEN ret(st.b, st.ptr)
  ELSE LValDecay(st.b, st.ptr)

LValCodeGen(b, n) ==
  LET sym == lookup(b, n.ident) IN
  IF b.err # "" THEN b
  ELSE IF sym.kind = "None"
  THEN panic(b, "Undefined variable: '" \o n.ident \o "'")
  ELSE IF sym.isConst /\ n.indices = <<>> /\ is_int(sym.type)
  THEN ret(b, ToString(sym.constValue))
  ELSE LValResult(LValWalk(LoadPtr(b, sym), n, sym, 1),
                  is_ptr(sym.type) /\ n.indices = <<>>)

\* args.push_back(arg->codeGen(builder))
ArgState(b1, vals) == [b |-> b1, vals |-> Append(vals, b1.out)]

\* the argument loop of FuncCallAST::codeGen; st = [b, vals]
RECURSIVE CallArgs(_, _, _)
CallArgs(st, args, i) ==
  IF i > Len(args) \/ st.b.err # "" THEN st
  ELSE CallArgs(ArgState(codeGen(st.b, args[i]), st.vals), args, i + 1)

\* the call line after the argument loop
CallInst(st, n, sym) ==
  IF is_void(sym.type)
  THEN ret(append(st.b, Line("call", "", <<"@" \o n.ident>> \o st.vals)), "")
  ELSE appendDef(newReg(st.b), "call", <<"@" \o n.ident>> \o st.vals)

FuncCallCodeGen(b, n) ==
  LET sym == lookup(b, n.ident) IN
  IF b.err # "" THEN b
  ELSE IF sym.kind = "None"
  THEN panic(b, "Undefined function '" \o n.ident \o "'")
  ELSE CallInst(CallArgs([b |-> b, vals |-> <<>>], n.args, 1), n, sym)

\* the line after rhs->codeGen; b1.out is rhs_reg
UnaryInst(b1, op) ==
  CASE op = "Neg" -> appendDef(newReg(b1), "sub", <<"0", b1.out>>)
    [] op = "Not" -> appendDef(newReg(b1), "eq", <<"0", b1.out>>)
    [] OTHER -> panic(newReg(b1), "Code Gen Error: Unknown unary op")

UnaryExprCodeGen(b, n) == UnaryInst(codeGen(b, n.rhs), n.op)

BranchSwapped(lhs_bool, true_label, false_label) ==
  Line("br", "", <<lhs_bool, false_label, true_label>>)

\* br lhs_bool, true_label, false_label
AndBranch(lhs_bool, true_label, false_label) ==
  Line("br", "", <<lhs_bool, true_label, false_label>>)

\* reg_bool = newReg(); append "reg_bool = ne reg, 0" for the name reg
\* returned last
NeZero(b) == appendDef(newReg(b), "ne", <<b.out, "0">>)

\* append "store v, addr" for the name v returned last
StoreOut(b, addr) == append(b, Line("store", "", <<b.out, addr>>))

\* op == BinaryOp::And
AndCodeGen(b, n) ==
  LET b1 == newVar(b, "and_res")
      tmp_addr == b1.out
      b3 == codeGen(append(b1, Line("alloc", tmp_addr, <<"i32">>)), n.lhs)
      id == b3.count_label
      true_label == newLabel("and_true", id)
      false_label == newLabel("and_false", id)
      end_label == newLabel("and_end", id)
      b6 == NeZero(allocLabelId(b3))
      b7 == append(b6, AndBranch(b6.out, true_label, false_label))
      b9 == codeGen(append(b7, Line("label", true_label, <<>>)), n.rhs)
      b12 == StoreOut(NeZero(b9), tmp_addr)
      b13 == append(b12, Line("jump", "", <<end_label>>))
      b14 == append(b13, Line("label", false_label, <<>>))
      b15 == append(b14, Line("store", "", <<"0", tmp_addr>>))
      b16 == append(b15, Line("jump", "", <<end_label>>))
      b17 == append(b16, Line("label", end_label, <<>>))
  IN appendDef(newReg(b17), "load", <<tmp_addr>>)

\* op == BinaryOp::Or
OrCodeGen(b, n) ==
  LET b1 == newVar(b, "or_res")
      tmp_addr == b1.out
      b3 == codeGen(append(b1, Line("alloc", tmp_addr, <<"i32">>)), n.lhs)
      id == b3.count_label
      true_label == newLabel("or_true", id)
      false_label == newLabel("or_false", id)
      end_label == newLabel("or_end", id)
      b6 == NeZero(allocLabelId(b3))
      b7 == append(b6, Line("br", "", <<b6.out, true_label, false_label>>))
      b8 == append(b7, Line("label", true_label, <<>>))
      b9 == append(b8, Line("store", "", <<"1", tmp_addr>>))
      b10 == append(b9, Line("jump", "", <<end_label>>))
      b12 == codeGen(append(b10, Line("label", false_label, <<>>)), n.rhs)
      b15 == StoreOut(NeZero(b12), tmp_addr)
      b16 == append(b15, Line("jump", "", <<end_label>>))
      b17 == append(b16, Line("label", end_label, <<>>))
  IN appendDef(newReg(b17), "load", <<tmp_addr>>)

\* the line after both operands; b2.out is rhs_reg
BinaryInst(b2, op, lhs_reg) ==
  appendDef(newReg(b2), opToString(op), <<lhs_reg, b2.out>>)

BinaryExprCodeGen(b, n) ==
  IF n.op = "And" THEN AndCodeGen(b, n)
  ELSE IF n.op = "Or" THEN OrCodeGen(b, n)
  ELSE LET b1 == codeGen(b, n.lhs)
       IN BinaryInst(codeGen(b1, n.rhs), n.op, b1.out)

-----------------------------------------------------------------------------
(* Compile-time evaluation: CalcValue returns [err, val]                    *)

\* int arithmetic; the operands of the model keep every result far inside
\* the 32-bit range, so no operation of CalcValue overflows
Abs(x) == IF x < 0 THEN -x ELSE x
\* C++ integer division truncates towards zero
TruncDiv(a, b) ==
  IF (a < 0) = (b < 0) THEN Abs(a) \div Abs(b) ELSE -(Abs(a) \div Abs(b))
TruncMod(a, b) == a - b * TruncDiv(a, b)
Bool(p) == IF p THEN 1 ELSE 0

Val(v) == [err |-> "", val |-> v]
Fail(msg) == [err |-> msg, val |-> 0]

RECURSIVE CalcValue(_, _)

LValCalcValue(b, n) ==
  LET sym == lookup(b, n.ident) IN
  IF sym.kind = "None"
  THEN Fail("Undefined variable '" \o n.ident \o "' in constant expression")
  ELSE IF ~sym.isConst
  THEN Fail("Variable '" \o n.ident \o "' is not a constant")
  ELSE Val(sym.constValue)

UnaryExprCalcValue(b, n) ==
  LET r == CalcValue(b, n.rhs) IN
  IF r.err # "" THEN r
  ELSE CASE n.op = "Neg" -> Val(-r.val)
         [] n.op = "Not" -> Val(Bool(r.val = 0))
         [] OTHER -> Val(0)

BinaryExprCalcValue(b, n) ==
  LET r == CalcValue(b, n.rhs) IN
  IF r.err # "" THEN r
  ELSE LET l == CalcValue(b, n.lhs) IN
  IF l.err # "" THEN l
  ELSE CASE n.op = "Add" -> Val(l.val + r.val)
         [] n.op = "Sub" -> Val(l.val - r.val)
         [] n.op = "Mul" -> Val(l.val * r.val)
         [] n.op = "Div" -> IF r.val = 0
                            THEN Fail("Semantic Error : Division by 0 is undefined")
                            ELSE Val(TruncDiv(l.val, r.val))
         [] n.op = "Mod" -> IF r.val = 0
                            THEN Fail("Semantic Error : Remainder by 0 is undefined")
                            ELSE Val(TruncMod(l.val, r.val))
         [] n.op = "Lt" -> Val(Bool(l.val < r.val))
         [] n.op = "Gt" -> Val(Bool(l.val > r.val))
         [] n.op = "Le" -> Val(Bool(l.val <= r.val))
         [] n.op = "Ge" -> Val(Bool(l.val >= r.val))
         [] n.op = "Eq" -> Val(Bool(l.val = r.val))
         [] n.op = "Ne" -> Val(Bool(l.val # r.val))
         [] n.op = "And" -> Val(Bool(l.val # 0 /\ r.val # 0))
         [] n.op = "Or" -> Val(Bool(l.val # 0 \/ r.val # 0))
         [] OTHER -> Val(0)

CalcValue(b, n) ==
  CASE n.kind = "Number" -> Val(n.val)
    [] n.kind = "LVal" -> LValCalcValue(b, n)
    [] n.kind = "Unary" -> UnaryExprCalcValue(b, n)
    [] n.kind = "Binary" -> BinaryExprCalcValue(b, n)
    [] n.kind = "FuncCall" ->
         Fail("Semantic Error: Function call '" \o n.ident
              \o "' is not a constant expression")

-----------------------------------------------------------------------------
(* Initialiser lists: InitValStmtAST::flatten                               *)

RECURSIVE flatten_impl(_, _, _, _)
RECURSIVE flatten_loop(_, _, _, _)

\* Scenario 3 [Align Mode]: after the nested list, move the outer cursor by 1
BraceAdvance(idx) == idx + 1

SubListNoCheck(sub_idx, node) == FALSE

\* the check after a brace list was consumed
SubListExcess(sub_idx, node) == sub_idx < Len(node.initialize_list)

\* the folded operand of a global initialiser; [b, res, idx]
ScalarConst(b, c, idx) ==
  [b |-> IF c.err # "" THEN panic(b, c.err) ELSE b,
   res |-> <<ToString(c.val)>>, idx |-> idx + 1]

\* the lowered operand of a local initialiser; [b, res, idx]
ScalarReg(b1, idx) == [b |-> b1, res |-> <<b1.out>>, idx |-> idx + 1]

\* Base Case: Target is a simple Integer; returns [b, res, idx]
flatten_scalar(b, list, idx) ==
  IF idx >= Len(list) THEN [b |-> b, res |-> <<"0">>, idx |-> idx]
  ELSE LET node == list[idx + 1] IN
       IF node.expr.kind = "Null"
       THEN [b |-> panic(b, "Semantic Error: Expected scalar, but found brace list"),
             res |-> <<>>, idx |-> idx]
       ELSE IF isGlobalScope(b)
       THEN ScalarConst(b, CalcValue(b, node.expr), idx)
       ELSE ScalarReg(codeGen(b, node.expr), idx)

flatten_impl(b, type, list, idx) ==
  IF b.err # "" THEN [b |-> b, res |-> <<>>, idx |-> idx]
  ELSE IF is_int(type) THEN flatten_scalar(b, list, idx)
  ELSE flatten_loop([b |-> b, res |-> <<>>, idx |-> idx], type, list, 0)

\* result.insert(result.end(), sub_result...) with the cursor left at idx
Insert(st, r, idx) == [b |-> r.b, res |-> st.res \o r.res, idx |-> idx]

\* Scenario 2 [Flow Mode]: the element consumes from the current list
FlowInsert(st, r) == Insert(st, r, r.idx)

\* Scenario 3 [Align Mode]: the element consumed the nested list `node`
AlignInsert(st, r, node) ==
  IF r.b.err = "" /\ SubListExcess(r.idx, node)
  THEN [b |-> panic(r.b, "Semantic Error: Excess elements in array initializer"),
        res |-> st.res, idx |-> st.idx]
  ELSE Insert(st, r, BraceAdvance(st.idx))

\* element i of the loop; st = [b, res, idx]
flatten_elem(st, arr_type, list) ==
  IF Len(list) <= st.idx
  THEN Insert(st, flatten_impl(st.b, arr_type.base, <<>>, 0), st.idx)
  ELSE IF list[st.idx + 1].expr.kind # "Null"
  THEN FlowInsert(st, flatten_impl(st.b, arr_type.base, list, st.idx))
  ELSE AlignInsert(st,
                   flatten_impl(st.b, arr_type.base,
                                list[st.idx + 1].initialize_list, 0),
                   list[st.idx + 1])

\* for (int i = 0; i < arr_type->len; ++i), from i on; st = [b, res, idx]
flatten_loop(st, arr_type, list, i) ==
  IF i >= arr_type.len \/ st.b.err # "" THEN st
  ELSE flatten_loop(flatten_elem(st, arr_type, list), arr_type, list, i + 1)

TopListNoCheck(idx, node) == FALSE

\* the final check on the top-level list
TopListExcess(idx, node) == idx < Len(node.initialize_list)

\* the checks of flatten on the result r of flatten_impl; [b, res]
flatten_result(r, node) ==
  IF r.b.err = "" /\ TopListExcess(r.idx, node)
  THEN [b |-> panic(r.b, "Semantic Error: Excess elements in initializer list"),
        res |-> <<>>]
  ELSE IF r.b.err # "" THEN [b |-> r.b, res |-> <<>>]
  ELSE [b |-> r.b, res |-> r.res]

\* returns [b, res]
flatten(b, node, targetType) ==
  flatten_result(flatten_impl(b, targetType, node.initialize_list, 0), node)

-----------------------------------------------------------------------------
(* Statements and definitions: codeGen                                      *)

\* the index loop of AssignStmtAST::codeGen, from index i on; st = [b, ptr, ty]
RECURSIVE AssignWalk(_, _, _, _)
AssignWalk(st, n, sym, i) ==
  IF i > Len(n.indices) \/ st.b.err # "" THEN st
  ELSE AssignWalk(WalkState(IndexInst(codeGen(st.b, n.indices[i]),
                                      IF i = 1 /\ is_ptr(sym.type)
                                      THEN "getptr" ELSE "getelemptr",
                                      st.ptr),
                            IF is_array(st.ty) THEN st.ty.base ELSE st.ty),
                  n, sym, i + 1)

\* the store after the index loop
AssignStore(st, n) ==
  IF is_int(st.ty) THEN ret(StoreOut(codeGen(st.b, n.expr), st.ptr), "")
  ELSE ret(st.b, "")

AssignStmtCodeGen(b, n) ==
  LET sym == lookup(b, n.lval.ident) IN
  IF b.err # "" THEN b
  ELSE IF sym.kind = "None"
  THEN panic(b, "Assignment to undefined variable '" \o n.lval.ident \o "'")
  ELSE IF sym.isConst
  THEN panic(b, "Error: Cannot assign to const variable '" \o sym.name \o "'")
  ELSE AssignStore(AssignWalk(LoadPtr(b, sym), n.lval, sym, 1), n)

ExprStmtCodeGen(b, n) ==
  IF n.expr.kind # "Null" THEN ret(codeGen(b, n.expr), "") ELSE ret(b, "")

\* setBlockClose and the ret line; b1.out is ret_val
RetInst(b1) ==
  ret(append(setBlockClose(b1),
             Line("ret", "", IF b1.out = "" THEN <<>> ELSE <<b1.out>>)), "")

ReturnStmtCodeGen(b, n) ==
  RetInst(IF n.expr.kind # "Null" THEN codeGen(b, n.expr) ELSE ret(b, ""))

\* for (const auto &item : items), from item i on
BlockItemsNoSkip(b, items, i) == FALSE

BlockItemSkipped(b, items, i) == isBlockClose(b)

RECURSIVE BlockItems(_, _, _)
BlockItems(b, items, i) ==
  IF i > Len(items) \/ b.err # "" THEN b
  ELSE IF BlockItemSkipped(b, items, i) THEN BlockItems(b, items, i + 1)
  ELSE BlockItems(codeGen(b, items[i]), items, i + 1)

\* a block that leaves its scope open
LeaveBlockKeepsScope(b2, n) == ret(b2, "")

\* if (createScope) exitScope()
LeaveBlock(b2, n) == ret(IF n.createScope THEN exitScope(b2) ELSE b2, "")

BlockCodeGen(b, n) ==
  LeaveBlock(BlockItems(IF n.createScope THEN enterScope(b) ELSE b, n.items, 1), n)

\* append "br cond, l1, l2" for the name cond returned last
BranchOut(b, l1, l2) == append(b, Line("br", "", <<b.out, l1, l2>>))

\* if (!builder.isBlockClose()) append "jump label"
JumpUnlessClosed(b, label) ==
  IF ~isBlockClose(b) THEN append(b, Line("jump", "", <<label>>)) ELSE b

IfStmtCodeGen(b, n) ==
  LET b1 == codeGen(b, n.cond)
      id == b1.count_label
      then_label == newLabel("then", id)
      else_label == newLabel("else", id)
      end_label == newLabel("end", id)
      b3 == BranchOut(allocLabelId(b1), then_label,
                      IF n.elseS.kind # "Null" THEN else_label ELSE end_label)
      b4 == clearBlockClose(append(b3, Line("label", then_label, <<>>)))
      b6 == JumpUnlessClosed(codeGen(b4, n.thenS), end_label)
      b7 == IF n.elseS.kind # "Null"
            THEN JumpUnlessClosed(
                   codeGen(clearBlockClose(append(b6, Line("label", else_label, <<>>))),
                           n.elseS),
                   end_label)
            ELSE b6
  IN ret(clearBlockClose(append(b7, Line("label", end_label, <<>>))), "")

WhileStmtCodeGen(b, n) ==
  LET id == b.count_label
      entry_label == newLabel("while_entry", id)
      body_label == newLabel("while_body", id)
      end_label == newLabel("while_end", id)
      b2 == pushLoop(allocLabelId(b), entry_label, end_label)
      b3 == append(b2, Line("jump", "", <<entry_label>>))
      b4 == append(b3, Line("label", entry_label, <<>>))
      b6 == BranchOut(codeGen(b4, n.cond), body_label, end_label)
      b7 == append(b6, Line("label", body_label, <<>>))
      b9 == JumpUnlessClosed(
              IF n.body.kind # "Null" THEN codeGen(clearBlockClose(b7), n.body) ELSE b7,
              entry_label)
      b10 == append(b9, Line("label", end_label, <<>>))
  IN ret(clearBlockClose(popLoop(b10)), "")

\* append "jump target" for the target returned last, and close the block
JumpOut(b1) == ret(setBlockClose(append(b1, Line("jump", "", <<b1.out>>))), "")

BreakStmtCodeGen(b) == JumpOut(getBreakTarget(b))

ContinueStmtCodeGen(b) == JumpOut(getContinueTarget(b))

\* the folded initialiser of a global or constant scalar, 0 without one
ScalarInit(b, n) ==
  IF n.initVal.kind # "Null" THEN CalcValue(b, n.initVal) ELSE Val(0)

\* a scalar at global scope; c is its folded initialiser
GlobalScalarDef(b, n, c) ==
  IF c.err # "" THEN panic(b, c.err)
  ELSE IF n.is_const
  THEN ret(defineGlobal(b, n.ident, "", IntType, "Var", TRUE, c.val), "")
  ELSE LET b1 == newVar(b, n.ident)
           b2 == appendDef(b1, "global",
                           <<"i32", IF n.initVal.kind = "Null" THEN "zeroinit"
                                    ELSE ToString(c.val)>>)
       IN ret(defineGlobal(b2, n.ident, b1.out, IntType, "Var", FALSE, 0), "")

\* a local constant; c is its folded initialiser
ConstScalarDef(b, n, c) ==
  IF c.err # "" THEN panic(b, c.err)
  ELSE ret(define(b, n.ident, "", IntType, "Var", TRUE, c.val), "")

ScalarDefCodeGen(b, n) ==
  IF isGlobalScope(b) THEN GlobalScalarDef(b, n, ScalarInit(b, n))
  ELSE IF n.is_const THEN ConstScalarDef(b, n, ScalarInit(b, n))
  ELSE LET b1 == newVar(b, n.ident)
           addr == b1.out
           b3 == define(appendDef(b1, "alloc", <<"i32">>), n.ident, addr, IntType,
                        "Var", FALSE, 0)
       IN IF n.initVal.kind # "Null"
          THEN ret(StoreOut(codeGen(b3, n.initVal), addr), "")
          ELSE ret(b3, "")

\* for (dim : array_suffix | reverse) arr_type = ArrayType::get(arr_type, dim->CalcValue)
\* returns [err, ty]
RECURSIVE DimsType(_, _, _, _)

\* one dimension; c is its folded length
DimsStep(b, dims, i, ty, c) ==
  IF c.err # "" THEN [err |-> c.err, ty |-> ty]
  ELSE DimsType(b, dims, i - 1, ArrayType(ty, c.val))

DimsType(b, dims, i, ty) ==
  IF i = 0 THEN [err |-> "", ty |-> ty]
  ELSE IF dims[i].kind = "Null" THEN DimsType(b, dims, i - 1, ty)
  ELSE DimsStep(b, dims, i, ty, CalcValue(b, dims[i]))

\* the aggregate literal of a global array; st = [str, idx]
RECURSIVE Aggregate(_, _, _)
RECURSIVE AggregateElems(_, _, _, _)

\* the closing brace after the elements
AggregateClose(r) == [str |-> r.str \o "}", idx |-> r.idx]

Aggregate(st, ty, vals) ==
  IF is_array(ty)
  THEN AggregateClose(
         AggregateElems([str |-> st.str \o "{", idx |-> st.idx], ty, vals, 0))
  ELSE [str |-> st.str \o vals[st.idx + 1], idx |-> st.idx + 1]
AggregateElems(st, ty, vals, i) ==
  IF i >= ty.len THEN st
  ELSE AggregateElems(
         Aggregate([str |-> IF i > 0 THEN st.str \o ", " ELSE st.str, idx |-> st.idx],
                   ty.base, vals),
         ty, vals, i + 1)

\* the getelemptr / store walk of a local array initialiser; st = [b, idx]
RECURSIVE InitWalk(_, _, _, _)
RECURSIVE InitWalkElems(_, _, _, _, _)

\* element i: b2 is the builder after its getelemptr, b2.out the element
InitWalkElem(b2, idx, ty, vals) ==
  InitWalk([b |-> b2, idx |-> idx], ty.base, b2.out, vals)

InitWalk(st, ty, ptr, vals) ==
  IF is_array(ty) THEN InitWalkElems(st, ty, ptr, vals, 0)
  ELSE [b |-> append(st.b, Line("store", "", <<vals[st.idx + 1], ptr>>)),
        idx |-> st.idx + 1]
InitWalkElems(st, ty, ptr, vals, i) ==
  IF i >= ty.len \/ st.b.err # "" THEN st
  ELSE InitWalkElems(
         InitWalkElem(appendDef(newReg(st.b), "getelemptr", <<ptr, ToString(i)>>),
                      st.idx, ty, vals),
         ty, ptr, vals, i + 1)

\* the global line of an array; f is the result of flatten
GlobalArrayInit(f, ir_name, ir_array_suffix, arr_type) ==
  IF f.b.err # "" THEN f.b
  ELSE append(f.b, Line("global", ir_name,
                        <<ir_array_suffix,
                          Aggregate([str |-> "", idx |-> 0], arr_type, f.res).str>>))

\* the stores of a local array initialiser; f is the result of flatten
LocalArrayInit(f, addr, arr_type) ==
  IF f.b.err # "" THEN f.b
  ELSE InitWalk([b |-> f.b, idx |-> 0], arr_type, addr, f.res).b

\* the type text "[[i32, dn], ... d1]" of the lambda ir_array_suffix, from
\* dimension idx on (the dimensions are folded without error before)
RECURSIVE ir_array_suffix(_, _, _)
ir_array_suffix(b, dims, idx) ==
  IF idx = Len(dims)
  THEN "[i32, " \o ToString(CalcValue(b, dims[idx]).val) \o "]"
  ELSE "[" \o ir_array_suffix(b, dims, idx + 1) \o ", "
           \o ToString(CalcValue(b, dims[idx]).val) \o "]"

\* the definition once the dimensions are folded to arr_type
ArrayDefOfType(b, n, arr_type) ==
  LET suffix == ir_array_suffix(b, n.array_suffix, 1)
      b1 == newVar(b, n.ident)
      addr == b1.out
  IN IF isGlobalScope(b)
     THEN ret(defineGlobal(
                IF n.init_val.kind = "Null"
                THEN appendDef(b1, "global", <<suffix, "zeroinit">>)
                ELSE GlobalArrayInit(flatten(b1, n.init_val, arr_type), addr,
                                     suffix, arr_type),
                n.ident, addr, arr_type, "Var", n.is_const, 0), "")
     ELSE ret(define(
                IF n.init_val.kind # "Null"
                THEN LocalArrayInit(
                       flatten(appendDef(b1, "alloc", <<suffix>>),
                               n.init_val, arr_type),
                       addr, arr_type)
                ELSE appendDef(b1, "alloc", <<suffix>>),
                n.ident, addr, arr_type, "Var", n.is_const, 0), "")

\* d is the result [err, ty] of folding the dimensions
ArrayDefDims(b, n, d) ==
  IF d.err # "" THEN panic(b, d.err) ELSE ArrayDefOfType(b, n, d.ty)

ArrayDefCodeGen(b, n) ==
  IF b.err # "" THEN b
  ELSE ArrayDefDims(b, n, DimsType(b, n.array_suffix, Len(n.array_suffix), IntType))

RECURSIVE DeclDefs(_, _, _)
DeclDefs(b, defs, i) ==
  IF i > Len(defs) \/ b.err # "" THEN b
  ELSE DeclDefs(codeGen(b, defs[i]), defs, i + 1)

DeclCodeGen(b, n) ==
  IF b.err # "" THEN b
  ELSE IF n.btype = "void"
  THEN panic(b, "Semantic Error: Variable cannot be of type 'void'")
  ELSE ret(DeclDefs(b, n.defs, 1), "")

\* PtrType::get(arr_type) for the folded dimensions d
PtrParamType(d) == [err |-> d.err, ty |-> PtrType(d.ty)]

\* the parameter type built by FuncParamAST::codeGen and ::toKoopa; [err, ty]
ParamType(b, n) ==
  IF n.is_ptr THEN PtrParamType(DimsType(b, n.indices, Len(n.indices), IntType))
  ELSE [err |-> "", ty |-> IntType]

\* the alloc, the store and the definition of a parameter of type p
FuncParamDefine(b, n, p) ==
  IF p.err # "" THEN panic(b, p.err)
  ELSE LET b2 == appendDef(newReg(b), "alloc", <<toKoopa(p.ty)>>)
           b3 == append(b2, Line("store", "", <<"@" \o n.ident, b2.out>>))
       IN ret(define(b3, n.ident, b2.out, p.ty, "Var", n.is_const, 0), "")

FuncParamCodeGen(b, n) ==
  IF b.err # "" THEN b
  ELSE IF n.btype = "void"
  THEN panic(b, "Semantic Error: Variable cannot be of type 'void'")
  ELSE FuncParamDefine(b, n, ParamType(b, n))

\* "@ident: type" of one parameter in front of the rest of the list
ParamHeaderItem(p, rest, ident) ==
  IF p.err # "" THEN [err |-> p.err, strs |-> <<>>]
  ELSE IF rest.err # "" THEN rest
  ELSE [err |-> "", strs |-> <<"@" \o ident \o ": " \o toKoopa(p.ty)>> \o rest.strs]

\* the "@ident: type" list of the function header; [err, strs]
RECURSIVE ParamHeader(_, _, _)
ParamHeader(b, params, i) ==
  IF i > Len(params) THEN [err |-> "", strs |-> <<>>]
  ELSE ParamHeaderItem(ParamType(b, params[i]), ParamHeader(b, params, i + 1),
                       params[i].ident)

RECURSIVE FuncParams(_, _, _)
FuncParams(b, params, i) ==
  IF i > Len(params) \/ b.err # "" THEN b
  ELSE FuncParams(FuncParamCodeGen(b, params[i]), params, i + 1)

\* a return appended whether or not the block is closed
ImplicitRetAlways(b, n) ==
  setBlockClose(append(b, IF n.btype = "void" THEN Line("ret", "", <<>>)
                                             ELSE Line("ret", "", <<"0">>)))

ImplicitRet(b, n) ==
  IF ~isBlockClose(b)
  THEN setBlockClose(append(b, IF n.btype = "void" THEN Line("ret", "", <<>>)
                                                    ELSE Line("ret", "", <<"0">>)))
  ELSE b

\* the fun / decl line; h is the parameter list of the header
FuncHeader(b1, n, h) ==
  IF h.err # "" THEN panic(b1, h.err)
  ELSE append(b1, Line(IF n.block.kind # "Null" THEN "fun" ELSE "decl",
                       "@" \o n.ident, h.strs))

\* enterScope, the entry label, the parameters, clearBlockClose
FuncEntry(b3, n) ==
  LET b5 == append(enterScope(b3), Line("label", "%entry_" \o n.ident, <<>>))
  IN clearBlockClose(FuncParams(b5, n.params, 1))

\* the implicit return, exitScope and the closing brace; b8 is the builder
\* after block->codeGen
FuncLeave(b8, n) ==
  ret(append(exitScope(ImplicitRet(b8, n)), Line("}", "", <<>>)), "")

\* the lines of the body after the function symbol is defined
FuncBody(b3, n) ==
  FuncLeave(codeGen(FuncEntry(b3, n), [n.block EXCEPT !.createScope = FALSE]), n)

\* the definition of the function symbol, then the body if there is one
FuncSymbol(b2, n) ==
  defineGlobal(b2, n.ident, "", IF n.btype = "void" THEN VoidType ELSE IntType,
               "Func", FALSE, 0)

FuncDefine(b2, n) ==
  IF n.block.kind = "Null" THEN ret(FuncSymbol(b2, n), "")
  ELSE FuncBody(FuncSymbol(b2, n), n)

\* after resetCount
FuncDefReset(b1, n) == FuncDefine(FuncHeader(b1, n, ParamHeader(b1, n.params, 1)), n)

FuncDefCodeGen(b, n) == FuncDefReset(resetCount(b), n)

codeGen(b, n) ==
  IF b.err # "" THEN b
  ELSE CASE n.kind = "Number" -> NumberCodeGen(b, n)
         [] n.kind = "LVal" -> LValCodeGen(b, n)
         [] n.kind = "Unary" -> UnaryExprCodeGen(b, n)
         [] n.kind = "Binary" -> BinaryExprCodeGen(b, n)
         [] n.kind = "FuncCall" -> FuncCallCodeGen(b, n)
         [] n.kind = "Block" -> BlockCodeGen(b, n)
         [] n.kind = "Return" -> ReturnStmtCodeGen(b, n)
         [] n.kind = "Assign" -> AssignStmtCodeGen(b, n)
         [] n.kind = "ExprStmt" -> ExprStmtCodeGen(b, n)
         [] n.kind = "If" -> IfStmtCodeGen(b, n)
         [] n.kind = "While" -> WhileStmtCodeGen(b, n)
         [] n.kind = "Break" -> BreakStmtCodeGen(b)
         [] n.kind = "Continue" -> ContinueStmtCodeGen(b)
         [] n.kind = "Decl" -> DeclCodeGen(b, n)
         [] n.kind = "ScalarDef" -> ScalarDefCodeGen(b, n)
         [] n.kind = "ArrayDef" -> ArrayDefCodeGen(b, n)
         [] n.kind = "FuncDef" -> FuncDefCodeGen(b, n)
         [] n.kind = "InitVal" ->
              panic(b, "InitValStmtAST::codeGen was called unexpectedly.")

-----------------------------------------------------------------------------
(* Execution of the emitted IR: the meaning Koopa gives to the lines of one *)
(* function (values are 32-bit integers; the operands of the model stay far *)
(* inside that range)                                                       *)

\* the integer an operand string stands for: a defined name, else a literal
Operand(regs, s) ==
  IF s \in DOMAIN regs THEN regs[s]
  ELSE CHOOSE i \in 0..99 : ToString(i) = s

\* position of the label line `name` in the lines fl, 0 when it is absent
LabelPos(fl, name) ==
  IF \E i \in 1..Len(fl) : fl[i] = Line("label", name, <<>>)
  THEN CHOOSE i \in 1..Len(fl) : fl[i] = Line("label", name, <<>>)
  ELSE 0

IrBinary == {"add", "sub", "mul", "div", "mod", "lt", "gt", "le", "ge", "eq", "ne"}

IrApply(op, l, r) ==
  CASE op = "add" -> l + r
    [] op = "sub" -> l - r
    [] op = "mul" -> l * r
    [] op = "div" -> TruncDiv(l, r)
    [] op = "mod" -> TruncMod(l, r)
    [] op = "lt" -> Bool(l < r)
    [] op = "gt" -> Bool(l > r)
    [] op = "le" -> Bool(l <= r)
    [] op = "ge" -> Bool(l >= r)
    [] op = "eq" -> Bool(l = r)
    [] op = "ne" -> Bool(l # r)

\* one instruction; st = [pc, regs, mem, calls, status, val]; every call
\* returns callret; a division by zero and a load of a cell never stored to
\* have no defined result
IrStep(fl, st, callret) ==
  LET ln == fl[st.pc]
      next == [st EXCEPT !.pc = st.pc + 1]
  IN  CASE ln.op \in {"fun", "label", "alloc"} -> next
        [] ln.op = "store" ->
             [next EXCEPT !.mem = (ln.args[2] :> Operand(st.regs, ln.args[1])) @@ st.mem]
        [] ln.op = "load" ->
             IF ln.args[1] \in DOMAIN st.mem
             THEN [next EXCEPT !.regs = (ln.res :> st.mem[ln.args[1]]) @@ st.regs]
             ELSE [st EXCEPT !.status = "undef"]
        [] ln.op \in IrBinary ->
             LET l == Operand(st.regs, ln.args[1])
                 r == Operand(st.regs, ln.args[2])
             IN  IF ln.op \in {"div", "mod"} /\ r = 0
                 THEN [st EXCEPT !.status = "undef"]
                 ELSE [next EXCEPT !.regs = (ln.res :> IrApply(ln.op, l, r)) @@ st.regs]
        [] ln.op = "call" ->
             [next EXCEPT !.calls = st.calls + 1,
                          !.regs = IF ln.res # "" THEN (ln.res :> callret) @@ st.regs
                                   ELSE st.regs]
        [] ln.op = "br" ->
             [st EXCEPT !.pc = LabelPos(fl, IF Operand(st.regs, ln.args[1]) # 0
                                            THEN ln.args[2] ELSE ln.args[3])]
        [] ln.op = "jump" -> [st EXCEPT !.pc = LabelPos(fl, ln.args[1])]
        [] ln.op = "ret" ->
             IF ln.args = <<>> THEN [st EXCEPT !.status = "void"]
             ELSE [st EXCEPT !.status = "value", !.val = Operand(st.regs, ln.args[1])]
        [] OTHER -> [st EXCEPT !.status = "stuck"]

RECURSIVE IrRun(_, _, _, _)
IrRun(fl, st, callret, fuel) ==
  IF st.status # "running" \/ fuel = 0 THEN st
  ELSE IrRun(fl, IrStep(fl, st, callret), callret, fuel - 1)

\* run the function in lines fl on the parameter values regs
IrExec(fl, regs, callret) ==
  IrRun(fl, [pc |-> 1, regs |-> regs, mem |-> [c \in {} |-> 0], calls |-> 0,
             status |-> "running", val |-> 0],
        callret, 4 * Len(fl))

\* the lines of the function lowered last by builder b (after the prelude)
LinesOf(b) == SubSeq(b.buffer, Len(LibraryFunctions) + 1, Len(b.buffer))

-----------------------------------------------------------------------------
(* The target generator: backend::TargetCodeGen, the frame pre-pass and the *)
(* prologue of visit(koopa_raw_function_t)                                  *)

\* a raw instruction: its kind tag, the tag/shape of its type (VoidType is
\* KOOPA_RTT_UNIT) and the length of its call argument list
RawInst(kind, ty, argc) == [kind |-> kind, ty |-> ty, argc |-> argc]
\* operands: an integer constant, a global, a function parameter (0-based)
Integer(value) == [kind |-> "integer", value |-> value]
GlobalAlloc(name) == [kind |-> "global_alloc", name |-> name]
FuncArgRef(index) == [kind |-> "func_arg_ref", index |-> index]
\* an instruction together with its operands (call: the arguments, store:
\* value and dest, load: src, ret: the value or nothing)
RawInstOn(kind, ty, args) == RawInst(kind, ty, Len(args)) @@ [args |-> args]
RawFunction(name, nparams, insts) == [name |-> name, nparams |-> nparams, insts |-> insts]

\* u_int32_t holds sizes modulo 2^32 bytes, that is modulo 2^30 4-byte words
TwoTo30 == 1073741824

\* (a * b) % m by doubling, every intermediate below 2^31
RECURSIVE MulMod(_, _, _)
MulMod(a, b, m) ==
  IF b = 0 THEN 0
  ELSE LET h == MulMod(a, b \div 2, m)
           d == (2 * h) % m
       IN  IF b % 2 = 1 THEN (d + (a % m)) % m ELSE d

\* the u_int32_t product len * get_type_size(base), in words
SizeWrap(len, base) == MulMod(len % TwoTo30, base, TwoTo30)

\* get_type_size in 4-byte words: the u_int32_t result is 4 * get_type_words
RECURSIVE get_type_words(_)
get_type_words(ty) ==
  CASE is_int(ty) -> 1
    [] is_ptr(ty) -> 1
    [] is_array(ty) -> SizeWrap(ty.len, get_type_words(ty.base))
    [] OTHER -> 0

\* int size = get_type_size(...): the u_int32_t value converted to int
get_type_size(ty) ==
  LET w == get_type_words(ty)
  IN  IF w < TwoTo30 \div 2 THEN 4 * w ELSE 4 * (w - TwoTo30)

isIn12BitRange(val) == val >= -2048 /\ val <= 2047

\* an addi whatever the immediate
emitAddiAnyImm(buffer, rd, rs, imm) ==
  buffer \o <<[op |-> "addi", rd |-> rd, rs |-> rs, imm |-> imm]>>

emitAddi(buffer, rd, rs, imm) ==
  IF isIn12BitRange(imm)
  THEN buffer \o <<[op |-> "addi", rd |-> rd, rs |-> rs, imm |-> imm]>>
  ELSE buffer \o <<[op |-> "li", rd |-> "t2", imm |-> imm],
                   [op |-> "add", rd |-> rd, rs |-> rs, rt |-> "t2"]>>

emitLw(buffer, rd, rs, offset) ==
  IF isIn12BitRange(offset)
  THEN buffer \o <<[op |-> "lw", rd |-> rd, offset |-> offset, base |-> rs]>>
  ELSE buffer \o <<[op |-> "li", rd |-> "t2", imm |-> offset],
                   [op |-> "add", rd |-> "t2", rs |-> "t2", rt |-> rs],
                   [op |-> "lw", rd |-> rd, offset |-> 0, base |-> "t2"]>>

\* a store that takes the scratch register as it is, without li t2
emitSwStaleScratch(buffer, src, base, offset) ==
  IF isIn12BitRange(offset)
  THEN buffer \o <<[op |-> "sw", src |-> src, offset |-> offset, base |-> base]>>
  ELSE buffer \o <<[op |-> "add", rd |-> "t2", rs |-> "t2", rt |-> base],
                   [op |-> "sw", src |-> src, offset |-> 0, base |-> "t2"]>>

emitSw(buffer, src, base, offset) ==
  IF isIn12BitRange(offset)
  THEN buffer \o <<[op |-> "sw", src |-> src, offset |-> offset, base |-> base]>>
  ELSE buffer \o <<[op |-> "li", rd |-> "t2", imm |-> offset],
                   [op |-> "add", rd |-> "t2", rs |-> "t2", rt |-> base],
                   [op |-> "sw", src |-> src, offset |-> 0, base |-> "t2"]>>

\* the members after construction and after reset(); stkMap maps the index of
\* an instruction to its slot offset and paramMap the parameters (both are
\* stkMap in the source); err holds the message of Log::panic
TargetCodeGen ==
  [buffer |-> <<>>, stk_frame_size |-> 0, local_frame_size |-> 0, ra_size |-> 0,
   args_size |-> 0, has_callee |-> FALSE, stkMap |-> <<>>, paramMap |-> <<>>,
   err |-> ""]

reset(t) == [TargetCodeGen EXCEPT !.buffer = t.buffer]

Max(a, b) == IF a >= b THEN a ELSE b

\* the pre-pass loop over the instructions of every basic block, from i on
RECURSIVE PrePass(_, _, _)
PrePass(t, insts, i) ==
  IF i > Len(insts) THEN t
  ELSE LET inst == insts[i]
           t1 == IF inst.kind = "call"
                 THEN [t EXCEPT !.has_callee = TRUE, !.ra_size = 4,
                                !.args_size = Max(t.args_size, inst.argc)]
                 ELSE t
           t2 == IF is_void(inst.ty) THEN [t1 EXCEPT !.stkMap = @ \o <<-1>>]
                 ELSE [t1 EXCEPT
                         !.stkMap = @ \o <<t1.local_frame_size>>,
                         !.local_frame_size =
                            IF inst.kind = "alloc"
                            THEN @ + get_type_size(inst.ty.target)
                            ELSE @ + 4]
       IN  PrePass(t2, insts, i + 1)

\* Align stack frame to 16 bytes
Align16(size) ==
  IF TruncMod(size, 16) # 0 THEN TruncDiv(size + 15, 16) * 16 ELSE size

\* the slot of parameter i (0-based): a0-a7 are stored below, the others stay
\* in the caller's frame
ParamSlot(t, i) ==
  IF i < 8 THEN i * 4 + t.args_size ELSE t.stk_frame_size + (i - 8) * 4

RECURSIVE StoreParams(_, _, _)
StoreParams(t, nparams, i) ==
  IF i >= nparams THEN t
  ELSE LET t1 == [t EXCEPT !.paramMap = @ \o <<ParamSlot(t, i)>>]
           t2 == IF i < 8
                 THEN [t1 EXCEPT !.buffer =
                         emitSw(@, "a" \o ToString(i), "sp", ParamSlot(t, i))]
                 ELSE t1
       IN  StoreParams(t2, nparams, i + 1)

\* the frame sizes once the pre-pass has run over every instruction
FrameSizes(t1) ==
  LET args_size == Max(t1.args_size - 8, 0) * 4
  IN  [t1 EXCEPT !.args_size = args_size,
                 !.stk_frame_size =
                    Align16(t1.local_frame_size + t1.ra_size + args_size)]

\* .text, .globl and the label of the function
FunctionHeader(t2, func) ==
  [t2 EXCEPT !.buffer = @ \o <<[op |-> ".text"],
                               [op |-> ".globl", name |-> func.name],
                               [op |-> "label", name |-> func.name]>>]

\* the prologue: move sp, save ra
Prologue(t3) ==
  LET t4 == IF t3.stk_frame_size > 0
            THEN [t3 EXCEPT !.buffer = emitAddi(@, "sp", "sp", -t3.stk_frame_size)]
            ELSE t3
  IN  IF t3.has_callee
      THEN [t4 EXCEPT !.buffer = emitSw(@, "ra", "sp", t3.stk_frame_size - 4)]
      ELSE t4

\* for (auto &[key, val] : stkMap) val += args_size; -1 marks an instruction
\* that has no entry
SlotOffsets(t5) ==
  [t5 EXCEPT !.stkMap =
     [k \in 1..Len(t5.stkMap) |->
        IF t5.stkMap[k] = -1 THEN -1 ELSE t5.stkMap[k] + t5.args_size]]

\* one line appended to the buffer
emit(t, line) == [t EXCEPT !.buffer = Append(@, line)]

\* load_to: a constant, the address of a global or of a local, or the stack
\* slot of an instruction (value.index is its position) or of a parameter
load_to(t, value, reg) ==
  CASE value.kind = "integer" ->
         emit(t, [op |-> "li", rd |-> reg, imm |-> value.value])
    [] value.kind = "global_alloc" ->
         emit(t, [op |-> "la", rd |-> reg, name |-> value.name])
    [] value.kind = "alloc" ->
         [t EXCEPT !.buffer = emitAddi(@, reg, "sp", t.stkMap[value.index])]
    [] value.kind \in {"get_elem_ptr", "get_ptr", "call", "binary", "load"} ->
         [t EXCEPT !.buffer = emitLw(@, reg, "sp", t.stkMap[value.index])]
    [] value.kind = "func_arg_ref" ->
         [t EXCEPT !.buffer = emitLw(@, reg, "sp", t.paramMap[value.index + 1])]
    [] OTHER -> panic(t, "Unhandled value tag in load_to")

\* the store of argument i (i >= 8, already in t0) at the bottom of the frame
StoreArg(t, i) == [t EXCEPT !.buffer = emitSw(@, "t0", "sp", (i - 8) * 4)]

\* visit(koopa_raw_call_t): the loop over call.args from i on (0-based), then
\* the call; a panic ends the run
RECURSIVE visitCall(_, _, _)
visitCall(t, args, i) ==
  IF t.err # "" THEN t
  ELSE IF i >= Len(args) THEN emit(t, [op |-> "call", name |-> "callee"])
  ELSE visitCall(IF i < 8 THEN load_to(t, args[i + 1], "a" \o ToString(i))
                 ELSE StoreArg(load_to(t, args[i + 1], "t0"), i),
                 args, i + 1)

\* the epilogue without the reload of ra
RestoreKeepsRa(t) ==
  IF t.stk_frame_size > 0
  THEN [t EXCEPT !.buffer = emitAddi(@, "sp", "sp", t.stk_frame_size)]
  ELSE t

\* an epilogue that reloads ra after sp has moved
RestoreSpFirst(t) ==
  LET t1 == RestoreKeepsRa(t)
  IN  IF t.ra_size > 0
      THEN [t1 EXCEPT !.buffer = emitLw(@, "ra", "sp", t.stk_frame_size - t.ra_size)]
      ELSE t1

\* Function Epilogue: Restore RA and SP
Restore(t) ==
  RestoreKeepsRa(
    IF t.ra_size > 0
    THEN [t EXCEPT !.buffer = emitLw(@, "ra", "sp", t.stk_frame_size - t.ra_size)]
    ELSE t)

\* visit(koopa_raw_return_t)
visitReturn(t, args) ==
  emit(Restore(IF args # <<>> THEN load_to(t, args[1], "a0") ELSE t),
       [op |-> "ret"])

visitLoad(t, args) ==
  emit(load_to(t, args[1], "t0"),
       [op |-> "lw", rd |-> "t0", offset |-> 0, base |-> "t0"])

visitStore(t, args) ==
  emit(load_to(load_to(t, args[1], "t0"), args[2], "t1"),
       [op |-> "sw", src |-> "t0", offset |-> 0, base |-> "t1"])

\* the result in register src goes to the slot of instruction k
SaveResult(t, inst, k, src) ==
  IF ~is_void(inst.ty)
  THEN [t EXCEPT !.buffer = emitSw(@, src, "sp", t.stkMap[k])]
  ELSE t

\* visit(koopa_raw_branch_t)
visitBranch(t, inst) ==
  emit(emit(load_to(t, inst.args[1], "t0"),
            [op |-> "bnez", rs |-> "t0", name |-> inst.true_bb]),
       [op |-> "j", name |-> inst.false_bb])

\* visit(koopa_raw_jump_t)
visitJump(t, inst) == emit(t, [op |-> "j", name |-> inst.target])

\* li t2, stride; mul t1, t1, t2; add t0, t0, t1
ScaleIndex(t, stride) ==
  emit(emit(emit(t, [op |-> "li", rd |-> "t2", imm |-> stride]),
            [op |-> "mul", rd |-> "t1", rs |-> "t1", rt |-> "t2"]),
       [op |-> "add", rd |-> "t0", rs |-> "t0", rt |-> "t1"])

\* visit(koopa_raw_get_elem_ptr_t): args = <<src, index>>
visitGetElemPtr(t, args) ==
  ScaleIndex(load_to(load_to(t, args[1], "t0"), args[2], "t1"),
             get_type_size(args[1].ty.target.base))

\* visit(koopa_raw_get_ptr_t): args = <<src, index>>
visitGetPtr(t, args) ==
  ScaleIndex(load_to(load_to(t, args[1], "t0"), args[2], "t1"),
             get_type_size(args[1].ty.target))

\* op t0, t0, t1
OnT0T1(op) == [op |-> op, rd |-> "t0", rs |-> "t0", rt |-> "t1"]

\* op t0, t0
OnT0(op) == [op |-> op, rd |-> "t0", rs |-> "t0"]

\* the first instruction of each comparison alone, without seqz and snez
BinaryLinesFirstOnly(op) ==
  <<OnT0T1(IF op \in {"lt", "ge"} THEN "slt"
           ELSE IF op \in {"gt", "le"} THEN "sgt" ELSE "xor")>>

\* the lines of the switch of visit(koopa_raw_binary_t); <<>> stands for
\* assert(false)
BinaryLines(op) ==
  CASE op = "add" -> <<OnT0T1("add")>>
    [] op = "sub" -> <<OnT0T1("sub")>>
    [] op = "mul" -> <<OnT0T1("mul")>>
    [] op = "div" -> <<OnT0T1("div")>>
    [] op = "mod" -> <<OnT0T1("rem")>>
    [] op = "and" -> <<OnT0T1("and")>>
    [] op = "or" -> <<OnT0T1("or")>>
    [] op = "xor" -> <<OnT0T1("xor")>>
    [] op = "shl" -> <<OnT0T1("sll")>>
    [] op = "shr" -> <<OnT0T1("srl")>>
    [] op = "sar" -> <<OnT0T1("sra")>>
    [] op = "lt" -> <<OnT0T1("slt")>>
    [] op = "gt" -> <<OnT0T1("sgt")>>
    [] op = "le" -> <<OnT0T1("sgt"), OnT0("seqz")>>
    [] op = "ge" -> <<OnT0T1("slt"), OnT0("seqz")>>
    [] op = "eq" -> <<OnT0T1("xor"), OnT0("seqz")>>
    [] op = "ne" -> <<OnT0T1("xor"), OnT0("snez")>>
    [] OTHER -> <<>>

\* visit(koopa_raw_binary_t): args = <<lhs, rhs>>
visitBinary(t, inst) ==
  [load_to(load_to(t, inst.args[1], "t0"), inst.args[2], "t1")
     EXCEPT !.buffer = @ \o BinaryLines(inst.op)]

\* the kinds visit(koopa_raw_value_t) has a case for
HandledTags ==
  {"ret", "store", "alloc", "branch", "jump", "get_elem_ptr", "get_ptr", "call",
   "global_alloc", "binary", "load"}

\* visit(koopa_raw_value_t) on instruction k of the function (a global_alloc
\* is no instruction of a function)
visitValue(t, inst, k) ==
  CASE inst.kind = "ret" -> visitReturn(t, inst.args)
    [] inst.kind = "store" -> visitStore(t, inst.args)
    [] inst.kind = "alloc" -> t
    [] inst.kind = "branch" -> visitBranch(t, inst)
    [] inst.kind = "jump" -> visitJump(t, inst)
    [] inst.kind = "get_elem_ptr" ->
         SaveResult(visitGetElemPtr(t, inst.args), inst, k, "t0")
    [] inst.kind = "get_ptr" -> SaveResult(visitGetPtr(t, inst.args), inst, k, "t0")
    [] inst.kind = "binary" -> SaveResult(visitBinary(t, inst), inst, k, "t0")
    [] inst.kind = "call" -> SaveResult(visitCall(t, inst.args, 0), inst, k, "a0")
    [] inst.kind = "load" -> SaveResult(visitLoad(t, inst.args), inst, k, "t0")
    [] inst.kind \notin HandledTags -> panic(t, "Unhandled value tag in visit value")

\* visit(koopa_raw_basic_block_t) over every block: the instructions from k on;
\* an entry of kind "bb" marks the start of a named block and is no instruction
RECURSIVE visitBasicBlocks(_, _, _)
visitBasicBlocks(t, insts, k) ==
  IF k > Len(insts) \/ t.err # "" THEN t
  ELSE visitBasicBlocks(IF insts[k].kind = "bb"
                        THEN emit(t, [op |-> "label", name |-> insts[k].name])
                        ELSE visitValue(t, insts[k], k),
                        insts, k + 1)

\* visit(koopa_raw_function_t)
visitFunction(t, func) ==
  IF func.insts = <<>> THEN t
  ELSE visitBasicBlocks(
         StoreParams(
           SlotOffsets(Prologue(FunctionHeader(
             FrameSizes(PrePass(reset(t), func.insts, 1)), func))),
           func.nparams, 0),
         func.insts, 1)

-----------------------------------------------------------------------------
(* The driver: parseArgs and the stages of main                             *)

\* struct Config, and how parseArgs ended: "" (returned), "exit(0)" or "panic"
Config == [mode |-> "", input_file |-> "", output_file |-> "", ended |-> ""]

\* the loop over Args from i on (0-based)
RECURSIVE parseLoop(_, _, _)
parseLoop(config, Args, i) ==
  IF config.ended # "" \/ i >= Len(Args) THEN config
  ELSE IF Args[i + 1] \in {"-h", "--help"}
       THEN [config EXCEPT !.ended = "exit(0)"]
  ELSE IF Args[i + 1] \in {"-koopa", "-riscv", "-perf"}
       THEN parseLoop([config EXCEPT !.mode = Args[i + 1]], Args, i + 1)
  ELSE IF Args[i + 1] = "-o" /\ i + 1 < Len(Args)
       THEN parseLoop([config EXCEPT !.output_file = Args[i + 2]], Args, i + 2)
  ELSE parseLoop([config EXCEPT !.input_file = Args[i + 1]], Args, i + 1)

\* argv with argv[0]; argc is its length
parseArgs(argv) ==
  IF Len(argv) # 2 /\ Len(argv) # 5 THEN [Config EXCEPT !.ended = "panic"]
  ELSE parseLoop(Config, Tail(argv), 0)

\* the run of main before its first statement: the output file does not exist
Start ==
  [pc |-> "parseArgs", argv |-> <<>>, config |-> Config, program |-> Null,
   status |-> -1, out |-> [state |-> "none"]]

\* an uncaught CompileError (or system_error) ends the process abnormally
Abort(m) == [m EXCEPT !.pc = "done", !.status = 134]

\* the file is created, left without its text
output_fileUnflushed(m, text) ==
  IF m.config.output_file = "" THEN Abort(m)
  ELSE [m EXCEPT !.out = [state |-> "open", path |-> m.config.output_file,
                          text |-> <<>>]]

\* auto out = fmt::output_file(config.output_file); out.print("{}", text); the
\* file is flushed and closed at the end of the block; the empty path cannot
\* be opened and fmt throws
output_file(m, text) ==
  IF m.config.output_file = "" THEN Abort(m)
  ELSE [m EXCEPT !.out = [state |-> "written", path |-> m.config.output_file,
                          text |-> text]]

\* the next stage, unless the run has ended
GoOn(m, pc) == IF m.pc = "done" THEN m ELSE [m EXCEPT !.pc = pc]

\* if (config.mode == mode) { write text }, then the stage at pc
WriteIfMode(m, mode, text, pc) ==
  IF m.config.mode = mode THEN GoOn(output_file(m, text), pc) ELSE GoOn(m, pc)

\* return 0 and exit(0)
Return0(m) == IF m.pc = "done" THEN m ELSE [m EXCEPT !.pc = "done", !.status = 0]

\* auto config = parseArgs(argc, argv)
mainParseArgs(m, config) ==
  CASE config.ended = "panic" -> Abort([m EXCEPT !.config = config])
    [] config.ended = "exit(0)" -> Return0([m EXCEPT !.config = config])
    [] OTHER -> [m EXCEPT !.config = config, !.pc = "fopen"]

\* yyin = fopen(config.input_file.c_str(), "r")
mainOpen(m, files) ==
  IF m.config.input_file \notin files THEN Abort(m) ELSE GoOn(m, "yyparse")

\* auto ret = yyparse(ast)
mainParse(m) == IF ~m.program.parses THEN Abort(m) ELSE GoOn(m, "codeGen")

\* ast->codeGen(irBuilder); ir = irBuilder.build(); the -koopa output
mainCodeGen(m, b) ==
  IF b.err # "" THEN Abort(m) ELSE WriteIfMode(m, "-koopa", b.buffer, "backend")

\* generator.visit(wrapper.getRaw()); asmCode = generator.getAssembly(); the
\* -riscv output; return 0
mainBackend(m, t) ==
  IF t.err # "" THEN Abort(m)
  ELSE Return0(WriteIfMode(m, "-riscv", t.buffer, "return"))

-----------------------------------------------------------------------------
(* Inputs: function bodies of bounded size                                  *)

MaxNodes == 4   \* statement nodes in the body of a control-flow function

X == LVal("x", <<>>)
Y == LVal("y", <<>>)

Conds == {Binary("And", X, Y)}

Leaves ==
  {BreakStmt, ContinueStmt, ReturnStmt(Binary("Or", X, Y)), ReturnStmt(Null),
   AssignStmt(X, Number(1))}
  \cup {WhileStmt(c, Null) : c \in Conds}

\* the statements with exactly n statement nodes
RECURSIVE StmtsOfSize(_)
StmtsOfSize(n) ==
  IF n = 1 THEN Leaves
  ELSE {IfStmt(c, s, Null) : c \in Conds, s \in StmtsOfSize(n - 1)}
       \cup {WhileStmt(c, s) : c \in Conds, s \in StmtsOfSize(n - 1)}
       \cup {Block(<<s>>) : s \in StmtsOfSize(n - 1)}
       \cup UNION {{IfStmt(c, s1, s2) : c \in Conds, s1 \in StmtsOfSize(i),
                                        s2 \in StmtsOfSize(n - 1 - i)}
                   : i \in 1..(n - 2)}
       \cup UNION {{Block(<<s1, s2>>) : s1 \in StmtsOfSize(i),
                                        s2 \in StmtsOfSize(n - 1 - i)}
                   : i \in 1..(n - 2)}

Stmts == UNION {StmtsOfSize(n) : n \in 1..MaxNodes}

XY == <<FuncParam("int", "x", FALSE, <<>>), FuncParam("int", "y", FALSE, <<>>)>>

CtlFuncDefs ==
  {FuncDef("int", "f", XY, Block(<<s>>)) : s \in Stmts}
  \cup {FuncDef("void", "f", XY, Block(<<s>>)) : s \in Leaves}

\* bodies that define names: locals (shadowing included), a variable that
\* shares its identifier with the short-circuit scratch cell, an initialised
\* array, a call
MaxItems == 3   \* block items in the body of a name-defining function

NameItems ==
  LET base == {Decl("int", <<ScalarDef("z", FALSE, Null)>>),
               Decl("int", <<ScalarDef("and_res", FALSE, Binary("And", X, Y))>>),
               Decl("int", <<ArrayDef("a", FALSE, <<Number(2)>>,
                                      InitVal(Null, <<InitVal(X, <<>>)>>))>>),
               AssignStmt(X, Binary("Or", X, FuncCall("getint", <<>>)))}
  IN  base \cup {Block(<<i>>) : i \in base}

RECURSIVE SeqsOfLen(_, _)
SeqsOfLen(S, n) ==
  IF n = 0 THEN {<<>>}
  ELSE {<<e>> \o t : e \in S, t \in SeqsOfLen(S, n - 1)}

NameFuncDefs ==
  {FuncDef("int", "h", XY, Block(items)) :
     items \in UNION {SeqsOfLen(NameItems, n) : n \in 1..MaxItems}}

\* one Assign or one LVal read on a scalar, a constant, a local array and two
\* array parameters, with index lists of bounded length
MaxIdx == 3   \* index expressions of an lvalue

LValParams ==
  <<FuncParam("int", "x", FALSE, <<>>),
    FuncParam("int", "p", TRUE, <<>>),
    FuncParam("int", "q", TRUE, <<Number(2)>>)>>

LValDecls ==
  <<Decl("int", <<ArrayDef("a", FALSE, <<Number(2), Number(2)>>, Null)>>),
    Decl("int", <<ScalarDef("c", TRUE, Number(1))>>)>>

LVals ==
  {LVal(id, idx) : id \in {"x", "c", "a", "p", "q"},
                   idx \in UNION {SeqsOfLen({Number(1), X}, n) : n \in 0..MaxIdx}}

LValFuncDefs ==
  {FuncDef("int", "g", LValParams, Block(LValDecls \o <<s>>)) :
     s \in {ReturnStmt(lv) : lv \in LVals}
           \cup {AssignStmt(lv, e) : lv \in LVals,
                                     e \in {Number(1), FuncCall("getint", <<>>)}}
           \cup {AssignStmt(LVal("u", <<>>), Number(1))}}

\* initialiser nodes: a scalar, or a brace list with a bounded number of
\* nodes (scalars and braces), the scalars numbered 1, 2, ... in source order
MaxInit == 6   \* nodes inside the braces of an initialiser

RECURSIVE InitItems(_)
InitElems(m) ==
  IF m = 1 THEN {InitVal(Number(1), <<>>), InitVal(Null, <<>>)}
  ELSE {InitVal(Null, l) : l \in InitItems(m - 1)}
InitItems(n) ==
  IF n = 0 THEN {<<>>}
  ELSE UNION {{<<e>> \o rest : e \in InitElems(m), rest \in InitItems(n - m)}
              : m \in 1..n}

\* number the scalars of a list from `next` on; returns [list, next]
RECURSIVE Renumber(_, _, _)
Renumber(list, i, next) ==
  IF i > Len(list) THEN [list |-> <<>>, next |-> next]
  ELSE IF list[i].expr.kind # "Null"
  THEN LET r == Renumber(list, i + 1, next + 1)
       IN  [list |-> <<InitVal(Number(next), <<>>)>> \o r.list, next |-> r.next]
  ELSE LET in == Renumber(list[i].initialize_list, 1, next)
           r == Renumber(list, i + 1, in.next)
       IN  [list |-> <<InitVal(Null, in.list)>> \o r.list, next |-> r.next]

InitNodes ==
  {InitVal(Number(1), <<>>)}
  \cup {InitVal(Null, Renumber(l, 1, 1).list) :
          l \in UNION {InitItems(n) : n \in 0..MaxInit}}

ArrayTypes ==
  {ArrayType(IntType, 2),
   ArrayType(ArrayType(IntType, 2), 2),
   ArrayType(ArrayType(ArrayType(IntType, 2), 2), 2)}

\* functions that return one short-circuit expression whose right operand
\* calls getint, run on bounded parameter and return values
MaxVal == 2   \* parameter values and values returned by getint

G == FuncCall("getint", <<>>)

ScLhs == {X, Unary("Not", X), Binary("And", X, Y), Binary("Or", X, Y),
          Binary("Sub", X, Y)}

ScRhs == {G, Unary("Not", G), Binary("And", G, Y), Binary("Add", G, Y)}

ScFuncDefs ==
  {FuncDef("int", "s", XY, Block(<<ReturnStmt(Binary(op, l, r))>>)) :
     op \in {"And", "Or"}, l \in ScLhs, r \in ScRhs}

\* constant expressions without calls, over literals and the constant N
MaxLit == 2   \* the literals of a constant expression are 0..MaxLit

ConstN == Decl("int", <<ScalarDef("N", TRUE, Number(2))>>)

Atoms == {Number(v) : v \in 0..MaxLit} \cup {LVal("N", <<>>)}

BinaryOps == {"Add", "Sub", "Mul", "Div", "Mod", "Lt", "Gt", "Le", "Ge", "Eq", "Ne",
              "And", "Or"}

Exprs1 ==
  {Unary(op, a) : op \in {"Neg", "Not"}, a \in Atoms}
  \cup {Binary(op, l, r) : op \in BinaryOps, l \in Atoms, r \in Atoms}

ConstExprs ==
  Atoms \cup Exprs1
  \cup {Unary(op, e) : op \in {"Neg", "Not"}, e \in Exprs1}
  \cup {Binary(op, a, e) : op \in {"And", "Or"}, a \in Atoms, e \in Exprs1}
  \cup {Binary(op, e, a) : op \in {"And", "Or"}, a \in Atoms, e \in Exprs1}

\* raw functions: a bounded number of instructions before the final ret
MaxInsts == 3   \* instructions of a raw function before its ret

AllocTypes ==
  {IntType, ArrayType(ArrayType(IntType, 2), 3),
   ArrayType(IntType, 1073741824),
   ArrayType(ArrayType(IntType, 32768), 32768)}

\* the arguments 1, 2, .., n
IntArgs(n) == [i \in 1..n |-> Integer(i)]

RawInsts ==
  {RawInstOn("alloc", PtrType(ty), <<>>) : ty \in AllocTypes}
  \cup {RawInstOn("load", IntType, <<GlobalAlloc("g")>>),
        RawInstOn("store", VoidType, <<Integer(0), GlobalAlloc("g")>>)}
  \cup {RawInstOn("call", IntType, IntArgs(9)),
        RawInstOn("call", VoidType, <<>>),
        RawInstOn("call", VoidType, IntArgs(10))}

\* frames around 2048 bytes, with calls and early returns
FrameInsts ==
  {RawInstOn("alloc", PtrType(ArrayType(IntType, 508)), <<>>),
   RawInstOn("alloc", PtrType(ArrayType(IntType, 512)), <<>>),
   RawInstOn("load", IntType, <<GlobalAlloc("g")>>),
   RawInstOn("call", IntType, IntArgs(9)),
   RawInstOn("ret", VoidType, <<>>)}

\* stack arguments on both sides: a call with ten arguments and a read of
\* parameter 8, with a local and with an array whose size wraps below zero
StackArgInsts ==
  {RawInstOn("alloc", PtrType(IntType), <<>>),
   RawInstOn("alloc", PtrType(ArrayType(IntType, 1073741820)), <<>>),
   RawInstOn("call", VoidType, IntArgs(10)),
   RawInstOn("store", VoidType, <<FuncArgRef(8), GlobalAlloc("g")>>)}

\* the bodies of at most MaxInsts of the given instructions
Bodies(insts) == UNION {SeqsOfLen(insts, n) : n \in 0..MaxInsts}

RawFunctions ==
  {RawFunction("f", np, body \o <<RawInstOn("ret", VoidType, <<>>)>>) :
     np \in {0, 9}, body \in Bodies(RawInsts)}
  \cup {RawFunction("f", 0, body \o <<RawInstOn("ret", VoidType, <<>>)>>) :
          body \in Bodies(FrameInsts)}
  \cup {RawFunction("f", 9, body \o <<RawInstOn("ret", VoidType, <<>>)>>) :
          body \in Bodies(StackArgInsts)}

\* the result of instruction index used as an operand, and a parameter of
\* pointer type
InstRef(kind, index, ty) == [kind |-> kind, index |-> index, ty |-> ty]
PtrArgRef(index, ty) == FuncArgRef(index) @@ [ty |-> ty]

\* the start of the basic block name
BasicBlock(name) == RawInstOn("bb", VoidType, <<>>) @@ [name |-> name]

BinaryTags ==
  {"add", "sub", "mul", "div", "mod", "and", "or", "xor", "shl", "shr", "sar",
   "lt", "gt", "le", "ge", "eq", "ne"}

\* the address step of an array of type a (instruction 2): getelemptr on the
\* local array, or getptr on the pointer parameter
AddressSteps(a, idx) ==
  {RawInstOn("get_elem_ptr", PtrType(a.base),
             <<InstRef("alloc", 1, PtrType(a)), idx>>),
   RawInstOn("get_ptr", PtrType(a.base), <<PtrArgRef(0, PtrType(a.base)), idx>>)}

\* functions that index an array, compute with the element and branch on the
\* result: the element and the later results lie above offset 2047 when the
\* array is large
PtrFunction(a, idx, op, step) ==
  RawFunction("f", 1,
    <<RawInstOn("alloc", PtrType(a), <<>>),
      step,
      RawInstOn("load", IntType, <<InstRef(step.kind, 2, step.ty)>>),
      RawInstOn("binary", IntType, <<InstRef("load", 3, IntType), idx>>)
        @@ [op |-> op],
      RawInstOn("branch", VoidType, <<InstRef("binary", 4, IntType)>>)
        @@ [true_bb |-> "then", false_bb |-> "end"],
      BasicBlock("then"),
      RawInstOn("jump", VoidType, <<>>) @@ [target |-> "end"],
      BasicBlock("end"),
      RawInstOn("ret", VoidType, <<InstRef("binary", 4, IntType)>>)>>)

PtrFunctions ==
  UNION {{PtrFunction(a, idx, op, step) :
            op \in BinaryTags, step \in AddressSteps(a, idx)} :
         a \in {ArrayType(IntType, 2), ArrayType(ArrayType(IntType, 2), 3),
                ArrayType(IntType, 1024)},
         idx \in {Integer(1), FuncArgRef(0)}}

\* argument vectors: argv[0] and up to MaxArgs arguments
MaxArgs == 4   \* arguments after argv[0]

Tokens == {"-koopa", "-riscv", "-perf", "-o", "-h", "a.c", "out"}

Argvs ==
  {<<"compiler">> \o args : args \in UNION {SeqsOfLen(Tokens, n) : n \in 0..MaxArgs}}

\* the files that exist before the run
Files == {"a.c"}

\* what a.c holds: a text yyparse rejects, a program, a program with a
\* redefinition; raw is the raw program libkoopa builds from the IR
Programs ==
  {[parses |-> FALSE, ast |-> Null, raw |-> Null],
   [parses |-> TRUE,
    ast |-> FuncDef("int", "main", <<>>, Block(<<ReturnStmt(Number(0))>>)),
    raw |-> RawFunction("main", 0, <<RawInstOn("ret", VoidType, <<Integer(0)>>)>>)],
   [parses |-> TRUE,
    ast |-> FuncDef("int", "main", <<>>,
                    Block(<<Decl("int", <<ScalarDef("z", FALSE, Null)>>),
                            Decl("int", <<ScalarDef("z", FALSE, Null)>>),
                            ReturnStmt(Number(0))>>)),
    raw |-> Null]}

\* symbol-table calls: the names, and the nesting depth the calls reach
MaxDepth == 3   \* frames on the scope stack

Names == {"x", "getint"}

\* the IR name given to name when it is defined at the given depth
IrNameAt(name, depth) == "@" \o name \o "_" \o ToString(depth)

-----------------------------------------------------------------------------
(* The driver: main constructs the builder, CompUnitAST::codeGen lowers the *)
(* children in order                                                        *)

Init ==
  /\ builder = KoopaBuilder
  /\ unit = Null
  /\ nchild = 0
  /\ flat = <<>>
  /\ calc = [err |-> "", val |-> 0]
  /\ run = [status |-> "none"]
  /\ generator = TargetCodeGen
  /\ main = Start
  /\ found = [op |-> "none"]

\* one iteration of CompUnitAST::codeGen's loop, on a function definition
LowerCtlFunc ==
  /\ nchild = 0
  /\ \E f \in CtlFuncDefs :
       /\ unit' = f
       /\ builder' = codeGen(builder, f)
  /\ nchild' = nchild + 1
  /\ UNCHANGED <<flat, calc, run, generator, main, found>>

LowerNameFunc ==
  /\ nchild = 0
  /\ \E f \in NameFuncDefs :
       /\ unit' = f
       /\ builder' = codeGen(builder, f)
  /\ nchild' = nchild + 1
  /\ UNCHANGED <<flat, calc, run, generator, main, found>>

LowerLValFunc ==
  /\ nchild = 0
  /\ \E f \in LValFuncDefs :
       /\ unit' = f
       /\ builder' = codeGen(builder, f)
  /\ nchild' = nchild + 1
  /\ UNCHANGED <<flat, calc, run, generator, main, found>>

Next == LowerCtlFunc \/ LowerNameFunc \/ LowerLValFunc

\* the builder and the vector that flatten leaves behind; f = [b, res]
FlattenReturns(f) ==
  /\ builder' = f.b
  /\ flat' = f.res

\* init_val->flatten(arr_type, builder) as ArrayDefAST::codeGen calls it, at
\* global scope (operands folded by CalcValue) or inside a function body
FlattenInit ==
  /\ nchild = 0
  /\ \E node \in InitNodes, ty \in ArrayTypes, local \in BOOLEAN :
       /\ unit' = [kind |-> "flatten", node |-> node, targetType |-> ty]
       /\ FlattenReturns(flatten(IF local THEN enterScope(builder) ELSE builder, node, ty))
  /\ nchild' = nchild + 1
  /\ UNCHANGED <<calc, run, generator, main, found>>

NextFlatten == FlattenInit

\* the outcome of the execution that ended in state r
Outcome(r) == [status |-> r.status, val |-> r.val, calls |-> r.calls]

\* lower a function and execute its IR on the inputs x, y, with getint
\* returning v
RunShortCircuit ==
  /\ nchild = 0
  /\ \E f \in ScFuncDefs, x \in 0..MaxVal, y \in 0..MaxVal, v \in 0..MaxVal :
       /\ unit' = f
       /\ builder' = codeGen(builder, f)
       /\ run' = Outcome(IrExec(LinesOf(builder'), ("@x" :> x) @@ ("@y" :> y), v))
                  @@ [x |-> x, y |-> y, v |-> v]
  /\ nchild' = nchild + 1
  /\ UNCHANGED <<flat, calc, generator, main, found>>

\* evaluate a constant expression as a const definition does (CalcValue in a
\* scope that holds the constant N), and lower and execute `return e`
CalcAndRun ==
  /\ nchild = 0
  /\ \E e \in ConstExprs :
       /\ unit' = FuncDef("int", "k", <<>>, Block(<<ConstN, ReturnStmt(e)>>))
       /\ builder' = codeGen(builder, unit')
       /\ calc' = CalcValue(codeGen(enterScope(builder), ConstN), e)
       /\ run' = Outcome(IrExec(LinesOf(builder'), [c \in {} |-> 0], 0))
  /\ nchild' = nchild + 1
  /\ UNCHANGED <<flat, generator, main, found>>

\* TargetCodeGen::visit(func) on one raw function, up to its body
VisitFunction ==
  /\ nchild = 0
  /\ \E func \in RawFunctions \cup PtrFunctions :
       /\ unit' = func
       /\ generator' = visitFunction(generator, func)
  /\ nchild' = nchild + 1
  /\ UNCHANGED <<builder, flat, calc, run, main, found>>

NextTarget == VisitFunction

\* main, line 83: the arguments and the content of the input file are chosen
MainParseArgs ==
  /\ main.pc = "parseArgs"
  /\ \E argv \in Argvs, program \in Programs :
       main' = mainParseArgs([main EXCEPT !.argv = argv, !.program = program],
                             parseArgs(argv))
  /\ UNCHANGED <<builder, unit, nchild, flat, calc, run, generator, found>>

\* main, lines 86-89
MainOpen ==
  /\ main.pc = "fopen"
  /\ main' = mainOpen(main, Files)
  /\ UNCHANGED <<builder, unit, nchild, flat, calc, run, generator, found>>

\* main, lines 91-99
MainParse ==
  /\ main.pc = "yyparse"
  /\ main' = mainParse(main)
  /\ unit' = main.program.ast
  /\ UNCHANGED <<builder, nchild, flat, calc, run, generator, found>>

\* main, lines 102-110
MainCodeGen ==
  /\ main.pc = "codeGen"
  /\ builder' = codeGen(KoopaBuilder, unit)
  /\ main' = mainCodeGen(main, builder')
  /\ UNCHANGED <<unit, nchild, flat, calc, run, generator, found>>

\* main, lines 113-125: libkoopa parses the IR text (it may reject it), the
\* generator visits the raw program
MainBackend ==
  /\ main.pc = "backend"
  /\ \/ /\ main.program.raw # Null
        /\ generator' = visitFunction(TargetCodeGen, main.program.raw)
        /\ main' = mainBackend(main, generator')
     \/ /\ main' = Abort(main)
        /\ UNCHANGED generator
  /\ UNCHANGED <<builder, unit, nchild, flat, calc, run, found>>

\* the call of a symbol-table method through the builder: found keeps the
\* call, the scopes before it and what it returned; a CompileError is caught
\* by the caller
Called(op, name, before, b2, result) ==
  [op |-> op, name |-> name, before |-> before.scopes, failed |-> b2.err # "",
   result |-> result]

Caught(b2) == [b2 EXCEPT !.err = ""]

EnterScope ==
  /\ main.pc = "parseArgs" /\ nchild = 0
  /\ Len(builder.scopes) < MaxDepth
  /\ builder' = enterScope(builder)
  /\ found' = Called("enterScope", "", builder, builder', NoSymbol)
  /\ UNCHANGED <<unit, nchild, flat, calc, run, generator, main>>

ExitScope ==
  /\ main.pc = "parseArgs" /\ nchild = 0
  /\ builder' = exitScope(builder)
  /\ found' = Called("exitScope", "", builder, builder', NoSymbol)
  /\ UNCHANGED <<unit, nchild, flat, calc, run, generator, main>>

IsGlobalScope ==
  /\ main.pc = "parseArgs" /\ nchild = 0
  /\ found' = Called("isGlobalScope", "", builder, builder, isGlobalScope(builder))
  /\ UNCHANGED <<builder, unit, nchild, flat, calc, run, generator, main>>

Defined(b, b2, op, name) ==
  /\ builder' = Caught(b2)
  /\ found' = Called(op, name, b, b2, NoSymbol)

Define ==
  /\ main.pc = "parseArgs" /\ nchild = 0
  /\ \E name \in Names :
       Defined(builder,
               define(builder, name, IrNameAt(name, Len(builder.scopes)),
                      IntType, "Var", FALSE, 0),
               "define", name)
  /\ UNCHANGED <<unit, nchild, flat, calc, run, generator, main>>

DefineGlobal ==
  /\ main.pc = "parseArgs" /\ nchild = 0
  /\ \E name \in Names :
       Defined(builder,
               defineGlobal(builder, name, IrNameAt(name, 1),
                            IntType, "Var", FALSE, 0),
               "defineGlobal", name)
  /\ UNCHANGED <<unit, nchild, flat, calc, run, generator, main>>

Lookup ==
  /\ main.pc = "parseArgs" /\ nchild = 0
  /\ \E name \in Names :
       found' = Called("lookup", name, builder, builder, lookup(builder, name))
  /\ UNCHANGED <<builder, unit, nchild, flat, calc, run, generator, main>>

NextSymtab ==
  EnterScope \/ ExitScope \/ IsGlobalScope \/ Define \/ DefineGlobal \/ Lookup

SpecSymtab == Init /\ [][NextSymtab]_vars

NextDriver ==
  MainParseArgs \/ MainOpen \/ MainParse \/ MainCodeGen \/ MainBackend

SpecDriver == Init /\ [][NextDriver]_vars

SpecTarget == Init /\ [][NextTarget]_vars

NextEval == RunShortCircuit \/ CalcAndRun

SpecEval == Init /\ [][NextEval]_vars

SpecFlatten == Init /\ [][NextFlatten]_vars

Spec == Init /\ [][Next]_vars

-----------------------------------------------------------------------------
(* Properties of the emitted IR                                             *)

Terminators == {"ret", "jump", "br"}

\* the lines of the function being lowered: the buffer after the library prelude
FunLines == LinesOf(builder)

\* C1: in the IR of a function body every terminator (ret, jump, br) is the
\* last instruction of its basic block: the next line is a label or the closing
\* brace, so a basic block holds at most one terminator.
C1_TerminatorEndsBlock ==
  LET fl == FunLines
  IN  \A i \in 1..Len(fl) :
        fl[i].op \in Terminators =>
          \/ i = Len(fl)
          \/ fl[i + 1].op \in {"label", "}"}

C1_Witness ==
  /\ builder.err = ""
  /\ unit = FuncDef("int", "f", XY,
       Block(<<WhileStmt(Binary("And", X, Y),
                 Block(<<ReturnStmt(Null), BreakStmt>>))>>))
  /\ Cardinality({i \in 1..Len(FunLines) : FunLines[i].op \in Terminators}) = 7

LoopIds == 0..(builder.count_label - 1)

\* positions of the %while_body_k and %while_end_k labels of every loop id
BodyPos(fl) == [k \in LoopIds |-> LabelPos(fl, newLabel("while_body", k))]
EndPos(fl) == [k \in LoopIds |-> LabelPos(fl, newLabel("while_end", k))]

\* line i lies in the body of loop k: after %while_body_k and before
\* %while_end_k (a loop still being lowered has no end label yet)
InLoopBody(i, k, bp, ep) ==
  /\ bp[k] # 0
  /\ bp[k] < i
  /\ (ep[k] = 0 \/ i < ep[k])

\* loop k is the innermost loop whose body holds line i
Innermost(i, k, bp, ep) ==
  /\ InLoopBody(i, k, bp, ep)
  /\ \A j \in LoopIds : InLoopBody(i, j, bp, ep) => bp[j] <= bp[k]

\* what lowering a statement does to the current block, by the nesting of the
\* AST alone: "open", "closed", or "error" for a break/continue outside a loop
RECURSIVE Reach(_, _)
RECURSIVE ReachItems(_, _, _)
ReachItems(items, i, inLoop) ==
  IF i > Len(items) THEN "open"
  ELSE LET r == Reach(items[i], inLoop)
       IN  IF r = "open" THEN ReachItems(items, i + 1, inLoop) ELSE r

Reach(s, inLoop) ==
  CASE s.kind \in {"Break", "Continue"} -> IF inLoop THEN "closed" ELSE "error"
    [] s.kind = "Return" -> "closed"
    [] s.kind = "Block" -> ReachItems(s.items, 1, inLoop)
    [] s.kind = "If" ->
         IF Reach(s.thenS, inLoop) = "error" THEN "error"
         ELSE IF s.elseS.kind # "Null" /\ Reach(s.elseS, inLoop) = "error" THEN "error"
         ELSE "open"
    [] s.kind = "While" ->
         IF s.body.kind # "Null" /\ Reach(s.body, TRUE) = "error" THEN "error"
         ELSE "open"
    [] OTHER -> "open"

LoopErrors ==
  {"Semantic Error: 'break' statement not within loop.",
   "Semantic Error: 'continue' statement not within loop."}

ResultLines(fl) ==
  {i \in 1..Len(fl) : fl[i].res # "" /\ fl[i].op \notin {"label", "fun", "decl", "global"}}

\* C8: within the IR of one function no two result-producing instructions
\* (alloc, load, getelemptr, getptr, binary, call) have the same result name.
C8_UniqueResultNames ==
  LET fl == FunLines
      rl == ResultLines(fl)
  IN  \A i \in rl : \A j \in rl : i # j => fl[i].res # fl[j].res

\* a user variable and_res next to a scratch cell, a shadowed local and an
\* initialised array in one function
C8_Witness ==
  /\ builder.err = ""
  /\ unit.kind = "FuncDef" /\ unit.ident = "h"
  /\ \E i \in 1..Len(FunLines) : FunLines[i] = Line("alloc", "@and_res_1", <<"i32">>)
  /\ \E i \in 1..Len(FunLines) : FunLines[i] = Line("alloc", "@and_res_2", <<"i32">>)
  /\ \E i \in 1..Len(FunLines) : FunLines[i] = Line("alloc", "@a_0", <<"[i32, 2]">>)
  /\ Cardinality(ResultLines(FunLines)) >= 12

\* the lvalue of the one statement of an lvalue function
TheLVal == LET s == unit.block.items[Len(unit.block.items)]
           IN  IF s.kind = "Return" THEN s.expr ELSE s.lval

IsLValRead == unit.block.items[Len(unit.block.items)].kind = "Return"

LoweredLVal == unit.kind = "FuncDef" /\ unit.ident = "g" /\ builder.err = ""

\* the declared shape of an identifier of the lvalue functions:
\* [ptr, rank] with rank the number of dimensions (the pointer included)
DeclShape(ident) ==
  IF \E i \in 1..Len(LValParams) : LValParams[i].ident = ident
  THEN LET prm == LValParams[CHOOSE i \in 1..Len(LValParams) :
                               LValParams[i].ident = ident]
       IN  [ptr |-> prm.is_ptr,
            rank |-> IF prm.is_ptr THEN 1 + Len(prm.indices) ELSE 0]
  ELSE LET d == LValDecls[CHOOSE i \in 1..Len(LValDecls) :
                            LValDecls[i].defs[1].ident = ident].defs[1]
       IN  [ptr |-> FALSE,
            rank |-> IF d.kind = "ArrayDef" THEN Len(d.array_suffix) ELSE 0]

\* the address instructions of the function, in emission order
AddrOps ==
  LET fl == FunLines
  IN  SelectSeq([i \in 1..Len(fl) |-> fl[i].op],
                LAMBDA o : o \in {"getelemptr", "getptr"})

\* a read that denotes an array (fewer indices than dimensions) and is not a
\* bare array parameter
ReadsArray ==
  /\ IsLValRead
  /\ Len(TheLVal.indices) < DeclShape(TheLVal.ident).rank
  /\ ~(DeclShape(TheLVal.ident).ptr /\ TheLVal.indices = <<>>)

AddrKindsOk ==
  \A k \in 1..Len(AddrOps) :
    AddrOps[k] = IF k = 1 /\ DeclShape(TheLVal.ident).ptr /\ TheLVal.indices # <<>>
                 THEN "getptr" ELSE "getelemptr"

\* C6 as stated: for every lowered Assign and LVal read the number of
\* getelemptr/getptr instructions equals the number of index expressions, the
\* first index on a pointer-typed symbol uses getptr and the others getelemptr.
C6_Original ==
  LoweredLVal =>
    /\ Len(AddrOps) = Len(TheLVal.indices)
    /\ AddrKindsOk

\* C6 amended: the count equals the number of index expressions, plus one
\* more getelemptr (index 0, the array-to-pointer decay) for a read that
\* denotes an array; the first index on a pointer-typed symbol uses getptr
\* and every other address instruction is a getelemptr.
C6_AddrCount ==
  LoweredLVal =>
    /\ Len(AddrOps) = Len(TheLVal.indices) + (IF ReadsArray THEN 1 ELSE 0)
    /\ AddrKindsOk

\* a read of one row of a two-dimensional array parameter: getptr, then decay
C6_Witness ==
  /\ LoweredLVal
  /\ IsLValRead
  /\ TheLVal = LVal("q", <<X>>)
  /\ AddrOps = <<"getptr", "getelemptr">>

-----------------------------------------------------------------------------
(* Properties of flatten                                                    *)

\* the total scalar capacity of a type
RECURSIVE ScalarSize(_)
ScalarSize(ty) == IF is_array(ty) THEN ty.len * ScalarSize(ty.base) ELSE 1

\* the length of the innermost rows of an array type
RECURSIVE RowLen(_)
RowLen(ty) == IF is_array(ty.base) THEN RowLen(ty.base) ELSE ty.len

\* the operand strings of the scalars of an initialiser list, in source order
RECURSIVE LeafStrings(_, _)
LeafStrings(list, i) ==
  IF i > Len(list) THEN <<>>
  ELSE (IF list[i].expr.kind # "Null" THEN <<ToString(list[i].expr.val)>>
        ELSE LeafStrings(list[i].initialize_list, 1))
       \o LeafStrings(list, i + 1)

\* the operand strings of every initialiser of a node: its own expression,
\* or the scalars of its list
NodeLeafStrings(node) ==
  IF node.expr.kind # "Null" THEN <<ToString(node.expr.val)>>
  ELSE LeafStrings(node.initialize_list, 1)

NonZero(v) == SelectSeq(v, LAMBDA e : e # "0")

Zeros(n) == [i \in 1..n |-> "0"]

IsFlatList(list) == \A i \in 1..Len(list) : list[i].expr.kind # "Null"

Flattened == unit.kind = "flatten"

Accepted == Flattened /\ builder.err = ""

\* C3: for every array type T and every initialiser list flatten accepts, the
\* vector has exactly as many entries as T has scalars; the entries that are
\* not "0" are the scalars of the list in source order (row-major filling),
\* so every other position is "0"; a list of scalars only fills the first
\* positions, e.g. {1, 2, 3} for [[i32,2],2] gives [1,2,3,0].
C3_SizedRowMajorPadded ==
  Accepted =>
    LET list == unit.node.initialize_list
    IN  /\ Len(flat) = ScalarSize(unit.targetType)
        /\ NonZero(flat) = LeafStrings(list, 1)
        /\ IsFlatList(list) =>
             flat = LeafStrings(list, 1) \o Zeros(ScalarSize(unit.targetType) - Len(list))

C3_Witness ==
  /\ Accepted
  /\ unit.targetType = ArrayType(ArrayType(IntType, 2), 2)
  /\ unit.node = InitVal(Null, <<InitVal(Number(1), <<>>), InitVal(Number(2), <<>>),
                                 InitVal(Number(3), <<>>)>>)
  /\ flat = <<"1", "2", "3", "0">>

\* position of the operand string e in the vector v, 0 when it is absent
PosIn(v, e) ==
  IF \E i \in 1..Len(v) : v[i] = e THEN CHOOSE i \in 1..Len(v) : v[i] = e ELSE 0

\* C4: a braced sub-list of the initialiser list of an array of rows places
\* its first value at the beginning of a sub-aggregate, never in the next
\* scalar slot of a partly filled row: the position of that value is a
\* multiple of the row length, whatever scalars precede the sub-list.
C4_BraceAligned ==
  (Accepted /\ is_array(unit.targetType.base)) =>
    LET list == unit.node.initialize_list
    IN  \A i \in 1..Len(list) :
          (/\ list[i].expr.kind = "Null"
           /\ list[i].initialize_list # <<>>
           /\ list[i].initialize_list[1].expr.kind # "Null") =>
            (PosIn(flat, ToString(list[i].initialize_list[1].expr.val)) - 1)
               % RowLen(unit.targetType) = 0

\* C5: flatten never silently drops an initialiser: when it returns a vector,
\* every initialiser of the node is in it, in order (so a list with more
\* elements than its target holds, at the top level or in a braced sub-list,
\* is not accepted); when it fails it returns no vector.
C5_NoInitialiserDropped ==
  Flattened =>
    /\ builder.err = "" => NonZero(flat) = NodeLeafStrings(unit.node)
    /\ builder.err # "" => flat = <<>>

-----------------------------------------------------------------------------
(* Properties of expression evaluation                                      *)

\* the value of a source expression over x, y and getint() = v, with the C
\* meaning of the operators (no division in these expressions)
RECURSIVE SourceValue(_, _, _, _)
SourceValue(e, x, y, v) ==
  CASE e.kind = "Number" -> e.val
    [] e.kind = "LVal" -> IF e.ident = "x" THEN x ELSE y
    [] e.kind = "FuncCall" -> v
    [] e.kind = "Unary" ->
         IF e.op = "Neg" THEN -SourceValue(e.rhs, x, y, v)
         ELSE Bool(SourceValue(e.rhs, x, y, v) = 0)
    [] e.kind = "Binary" ->
         LET l == SourceValue(e.lhs, x, y, v)
             r == SourceValue(e.rhs, x, y, v)
         IN  CASE e.op = "And" -> Bool(l # 0 /\ r # 0)
               [] e.op = "Or" -> Bool(l # 0 \/ r # 0)
               [] e.op = "Add" -> l + r
               [] e.op = "Sub" -> l - r

RanShortCircuit ==
  unit.kind = "FuncDef" /\ unit.ident = "s" /\ builder.err = "" /\ run.status # "none"

\* the returned short-circuit expression and whether its left operand decides
ScExpr == unit.block.items[1].expr

LhsDecisive ==
  LET l == SourceValue(ScExpr.lhs, run.x, run.y, run.v)
  IN  IF ScExpr.op = "And" THEN l = 0 ELSE l # 0

\* C2: executing the IR of `lhs && rhs` / `lhs || rhs`, the instructions of
\* rhs (here the call it contains) run on no path where lhs is decisive and
\* exactly once on the other path; the value loaded at the end label, which
\* the function returns, is 0 or 1 and equals the logical result.
C2_ShortCircuit ==
  RanShortCircuit =>
    LET fl == FunLines
        n == Len(fl)
    IN  /\ run.calls = IF LhsDecisive THEN 0 ELSE 1
        /\ run.status = "value"
        /\ run.val \in {0, 1}
        /\ run.val = SourceValue(ScExpr, run.x, run.y, run.v)
        /\ fl[n - 3].op = "label"
        /\ fl[n - 2].op = "load"
        /\ fl[n - 1] = Line("ret", "", <<fl[n - 2].res>>)

\* x && !getint() with x = 0: the call is skipped and the result is 0
C2_Witness ==
  /\ RanShortCircuit
  /\ ScExpr = Binary("And", X, Unary("Not", G))
  /\ run.x = 0
  /\ LhsDecisive
  /\ run.calls = 0
  /\ run.val = 0

RanConstExpr ==
  unit.kind = "FuncDef" /\ unit.ident = "k" /\ run.status # "none"

\* C7: for a constant expression without calls, CalcValue gives the same
\* outcome as executing the IR that codeGen emits for it: whenever the IR
\* produces an integer, CalcValue produces that integer.
C7_CalcValueAgrees ==
  (RanConstExpr /\ run.status = "value") =>
    (calc.err = "" /\ calc.val = run.val)

-----------------------------------------------------------------------------
(* Properties of the frame pre-pass                                         *)

Visited == unit \in RawFunctions /\ nchild = 1

NonUnitCount(insts) == Cardinality({i \in 1..Len(insts) : ~is_void(insts[i].ty)})

HasCall(insts) == \E i \in 1..Len(insts) : insts[i].kind = "call"

\* the largest call argument count, 0 without a call
RECURSIVE MaxArgc(_, _)
MaxArgc(insts, i) ==
  IF i > Len(insts) THEN 0
  ELSE Max(IF insts[i].kind = "call" THEN insts[i].argc ELSE 0, MaxArgc(insts, i + 1))

\* C10: the total frame size of every processed function is a multiple of 16
\* and at least 4 * (number of non-Unit instructions + 1 if the function
\* contains a call + max(0, largest call argument count - 8)).
C10_FrameSize ==
  Visited =>
    /\ generator.stk_frame_size % 16 = 0
    /\ generator.stk_frame_size >=
         4 * (NonUnitCount(unit.insts) + (IF HasCall(unit.insts) THEN 1 ELSE 0)
              + Max(0, MaxArgc(unit.insts, 1) - 8))

-----------------------------------------------------------------------------
(* Properties of the slot map                                               *)

NonUnit(insts) == {k \in 1..Len(insts) : ~is_void(insts[k].ty)}

\* C11: after the pre-pass and the shift by args_size every instruction of the
\* function with a non-Unit result type has an entry in the slot map, and its
\* offset satisfies 0 <= slot < total frame size.
C11_SlotsInFrame ==
  Visited =>
    \A k \in NonUnit(unit.insts) :
      /\ generator.stkMap[k] # -1
      /\ 0 <= generator.stkMap[k]
      /\ generator.stkMap[k] < generator.stk_frame_size

-----------------------------------------------------------------------------
(* Properties of the emitted prologue and epilogue                          *)

\* the lines of the function after .text, .globl and the label
Body == SubSeq(generator.buffer, 4, Len(generator.buffer))

Rets == {j \in 1..Len(Body) : Body[j].op = "ret"}

AddiSp(imm) == [op |-> "addi", rd |-> "sp", rs |-> "sp", imm |-> imm]

LiAddSp(imm) == <<[op |-> "li", rd |-> "t2", imm |-> imm],
                  [op |-> "add", rd |-> "sp", rs |-> "sp", rt |-> "t2"]>>

\* the prologue moves sp with one addi / with li t2 and add
PrologueAddi == Len(Body) >= 1 /\ Body[1] = AddiSp(-generator.stk_frame_size)
PrologueLiAdd ==
  Len(Body) >= 2 /\ SubSeq(Body, 1, 2) = LiAddSp(-generator.stk_frame_size)

\* the ret at j is preceded by one addi / by li t2 and add
EpilogueAddi(j) == j >= 2 /\ Body[j - 1] = AddiSp(generator.stk_frame_size)
EpilogueLiAdd(j) ==
  j >= 3 /\ SubSeq(Body, j - 2, j - 1) = LiAddSp(generator.stk_frame_size)

\* C12 as stated: the prologue decrement and the epilogue increment use a
\* single addi when the frame size is at most 2047 and li t2 + add when it is
\* 2048 or more.
C12_Original ==
  (Visited /\ generator.stk_frame_size > 0) =>
    IF generator.stk_frame_size <= 2047
    THEN PrologueAddi /\ \A j \in Rets : EpilogueAddi(j)
    ELSE PrologueLiAdd /\ \A j \in Rets : EpilogueLiAdd(j)

\* C12, amended: the epilogue increment uses a single addi when the frame size
\* is at most 2047 and li t2 + add from 2048 on; the prologue decrement uses a
\* single addi when the frame size is at most 2048 and li t2 + add above it.
C12_AddiRange ==
  (Visited /\ generator.stk_frame_size > 0) =>
    /\ IF generator.stk_frame_size <= 2048 THEN PrologueAddi ELSE PrologueLiAdd
    /\ \A j \in Rets :
         IF generator.stk_frame_size <= 2047
         THEN EpilogueAddi(j) ELSE EpilogueLiAdd(j)

\* a function with a frame of exactly 2048 bytes and two returns was emitted
C12_Witness ==
  /\ Visited
  /\ generator.stk_frame_size = 2048
  /\ PrologueAddi
  /\ Cardinality(Rets) = 2
  /\ \A j \in Rets : EpilogueLiAdd(j)

-----------------------------------------------------------------------------
(* The emitted lines, executed on sp and t2: sp is kept relative to its     *)
(* value at function entry                                                  *)

\* the number of lines of the prologue that move sp
PrologueLen ==
  IF generator.stk_frame_size <= 0 THEN 0
  ELSE IF Body[1].op = "addi" THEN 1 ELSE 2

\* the value of the base register of a lw / sw
BaseOf(st, line) == IF line.base = "sp" THEN st.sp ELSE st.t2

\* one line: sp and t2 move; a store of ra and a load of ra record their
\* address; a ret records sp and the address ra was reloaded from, and the
\* next block starts with the sp the prologue left. t0 holds the constant
\* loaded last (0: something else): the call argument at position i is the
\* constant i + 1, so a store of such a t0 through sp records the position and
\* the address, and a load into t0 through sp records the address a
\* parameter is read from
ExecLine(st, line, j) ==
  CASE line.op = "addi" /\ line.rd = "sp" -> [st EXCEPT !.sp = @ + line.imm]
    [] line.op = "li" /\ line.rd = "t2" -> [st EXCEPT !.t2 = line.imm]
    [] line.op = "li" /\ line.rd = "t0" -> [st EXCEPT !.t0 = line.imm]
    [] line.op = "la" /\ line.rd = "t0" -> [st EXCEPT !.t0 = 0]
    [] line.op = "sw" /\ line.src = "t0" /\ line.base \in {"sp", "t2"}
         /\ st.t0 > 8 ->
         [st EXCEPT !.args = @ \cup {[i |-> st.t0 - 1,
                                      addr |-> BaseOf(st, line) + line.offset]}]
    [] line.op = "lw" /\ line.rd = "t0" ->
         [st EXCEPT !.t0 = 0,
                    !.params = IF line.base \in {"sp", "t2"}
                               THEN @ \cup {BaseOf(st, line) + line.offset}
                               ELSE @]
    [] line.op = "add" /\ line.rd = "sp" -> [st EXCEPT !.sp = @ + st.t2]
    [] line.op = "add" /\ line.rd = "t2" -> [st EXCEPT !.t2 = @ + st.sp]
    [] line.op = "sw" /\ line.src = "ra" ->
         [st EXCEPT !.saved = @ \cup {BaseOf(st, line) + line.offset}]
    [] line.op = "lw" /\ line.rd = "ra" ->
         [st EXCEPT !.loaded = {BaseOf(st, line) + line.offset}]
    [] line.op = "ret" ->
         [st EXCEPT !.rets = @ \cup {[at |-> j, sp |-> st.sp, ra |-> st.loaded]},
                    !.loaded = {}, !.sp = st.frame]
    [] OTHER -> st

\* the lines from j on; a run whose sp rises above the entry value stops, it
\* has left the frame of the function
RECURSIVE ExecLines(_, _, _)
ExecLines(st, lines, j) ==
  IF j > Len(lines) \/ st.sp > 0 THEN st
  ELSE ExecLines(
         ExecLine(IF j = PrologueLen + 1 THEN [st EXCEPT !.frame = st.sp] ELSE st,
                  lines[j], j),
         lines, j + 1)

\* the run of the whole function from sp = 0
Executed ==
  ExecLines([sp |-> 0, t2 |-> 0, t0 |-> 0, frame |-> 0, saved |-> {},
             loaded |-> {}, rets |-> {}, args |-> {}, params |-> {}], Body, 1)

\* the address of the ra slot: offset total - 4 from the sp of the frame
RaSlot(st) == st.frame + generator.stk_frame_size - 4

RaSavedIffCall(st) ==
  st.saved = IF HasCall(unit.insts) THEN {RaSlot(st)} ELSE {}

RetsRestore(st) ==
  /\ Cardinality(st.rets) = Cardinality(Rets)
  /\ \A r \in st.rets :
       /\ r.sp = 0
       /\ r.ra = IF HasCall(unit.insts) THEN {RaSlot(st)} ELSE {}

\* C13: the prologue saves ra at offset total - 4 if and only if the body
\* contains a call; every return of such a function reloads ra from that same
\* address before ret; and at every ret sp has the value it had at function
\* entry.
C13_RaAndSpRestored ==
  Visited => (RaSavedIffCall(Executed) /\ RetsRestore(Executed))

\* a function with a call, a frame above 2048 bytes and two returns
C13_Witness ==
  /\ Visited
  /\ HasCall(unit.insts)
  /\ generator.stk_frame_size > 2048
  /\ Cardinality(Executed.rets) = 2
  /\ Executed.saved = {-4}

-----------------------------------------------------------------------------
(* Stack arguments: the caller's side and the callee's side                 *)

\* the positions (0-based, 8 and above) of the stack arguments of the calls
StackArgs(insts) ==
  UNION {{i \in 8..(insts[k].argc - 1) : insts[k].kind = "call"} :
           k \in 1..Len(insts)}

\* the function reads parameter 8
ReadsParam(insts) ==
  \E k \in 1..Len(insts) : \E a \in 1..Len(insts[k].args) :
     insts[k].args[a] = FuncArgRef(8)

\* caller: argument i is stored at sp + (i - 8) * 4 where sp is the sp at the
\* call, inside [0, args_size) of its frame
CallerStores(st) ==
  /\ {s.i : s \in st.args} = StackArgs(unit.insts)
  /\ \A s \in st.args :
       /\ s.addr - st.frame = (s.i - 8) * 4
       /\ 0 <= s.addr - st.frame
       /\ s.addr - st.frame < generator.args_size

\* callee: parameter 8 is read from (8 - 8) * 4 above the sp at function
\* entry, which is the sp at the call
CalleeReads(st) ==
  st.params = IF ReadsParam(unit.insts) THEN {0} ELSE {}

\* C14: for every call with more than eight arguments the address at which the
\* caller stores argument i (i >= 8), caller sp + (i - 8) * 4, equals the
\* address from which the callee reads its parameter i, callee sp + callee
\* total frame size + (i - 8) * 4, and the caller's stores stay inside the
\* [0, args_size) area of its frame.
C14_StackArgsAgree ==
  Visited => (CallerStores(Executed) /\ CalleeReads(Executed))

-----------------------------------------------------------------------------
(* Properties of the driver                                                 *)

Done == main.pc = "done"

Options == {"-koopa", "-riscv", "-perf", "-o", "-h", "--help"}

\* argv is <mode> <input> -o <output>
Canonical(argv) ==
  /\ Len(argv) = 5
  /\ argv[2] \in {"-koopa", "-riscv", "-perf"}
  /\ argv[3] \notin Options
  /\ argv[4] = "-o"
  /\ argv[5] \notin Options

\* argv asks for help
HelpRequest(argv) == \E i \in 2..Len(argv) : argv[i] \in {"-h", "--help"}

\* the file at the output path holds the assembly of the program
AsmWritten ==
  main.out = [state |-> "written", path |-> main.argv[5],
              text |-> visitFunction(TargetCodeGen, main.program.raw).buffer]

\* C15: a run with mode -perf behaves as with mode -riscv: for the same input
\* and output path it writes the same assembly text to the output file.
C15_PerfAsRiscv ==
  (Done /\ main.status = 0 /\ Canonical(main.argv) /\ ~HelpRequest(main.argv)
     /\ main.argv[2] \in {"-riscv", "-perf"})
    => AsmWritten

\* C16: the driver aborts with a non-zero status for every argument vector
\* that is neither <mode> <input> -o <output> nor a help request; it never
\* compiles and exits zero on such an argument vector.
C16_UsageAborts ==
  (Done /\ ~Canonical(main.argv) /\ ~HelpRequest(main.argv)) => main.status # 0

\* the complete result of the selected mode
CompleteResult ==
  IF main.config.mode = "-koopa" THEN builder.buffer ELSE generator.buffer

\* C17: in every state of every run the output file is either not written or
\* holds the complete result of the selected mode, whatever way the run ends.
C17_OutputAtomic ==
  \/ main.out = [state |-> "none"]
  \/ /\ main.config.mode \in {"-koopa", "-riscv"}
     /\ builder.err = "" /\ generator.err = ""
     /\ main.out = [state |-> "written", path |-> main.config.output_file,
                    text |-> CompleteResult]

\* a -koopa run that was aborted by a semantic error: nothing is written
C17_Witness ==
  /\ Done /\ main.status # 0
  /\ main.argv = <<"compiler", "-koopa", "a.c", "-o", "out">>
  /\ builder.err = "Semantic Error: Redefinition of z"
  /\ main.out = [state |-> "none"]

-----------------------------------------------------------------------------
(* Properties of the symbol table                                           *)

\* the frames that bind name
Binding(scopes, name) == {i \in 1..Len(scopes) : contains(scopes[i], name)}

\* the largest element of a non-empty set of frame indices
InnermostFrame(frames) == CHOOSE i \in frames : \A j \in frames : j <= i

\* the binding of name in the innermost frame that has one, NoSymbol without
InnermostBinding(scopes, name) ==
  IF Binding(scopes, name) = {} THEN NoSymbol
  ELSE scopes[InnermostFrame(Binding(scopes, name))][name]

\* frame 0 still holds every binding it got at construction
GlobalFrameKept ==
  \A n \in DOMAIN KoopaBuilder.scopes[1] :
     /\ contains(builder.scopes[1], n)
     /\ builder.scopes[1][n] = KoopaBuilder.scopes[1][n]

\* C18: after any sequence of enterScope, exitScope, define, defineGlobal and
\* lookup calls the stack is non-empty and its frame 0 is the frame created at
\* construction; exitScope on a single-frame stack changes nothing, and
\* isGlobalScope is true exactly when the depth is 1.
C18_GlobalFrameStays ==
  /\ Len(builder.scopes) >= 1
  /\ GlobalFrameKept
  /\ (found.op = "exitScope" /\ Len(found.before) = 1) =>
       builder.scopes = found.before
  /\ found.op = "isGlobalScope" => (found.result <=> Len(builder.scopes) = 1)

\* exitScope was called on the single-frame stack after a global definition
C18_Witness ==
  /\ found.op = "exitScope"
  /\ Len(found.before) = 1
  /\ contains(builder.scopes[1], "x")

\* the scopes with the new symbol bound in frame i
WithSymbol(scopes, i, name) ==
  [scopes EXCEPT ![i] = (name :> Symbol(name, IrNameAt(name, i), IntType, "Var",
                                        FALSE, 0)) @@ @]

\* C19: define(name) fails, leaving every frame unchanged, exactly when name is
\* already bound in the top frame (a binding in an outer frame does not make it
\* fail); defineGlobal(name) fails exactly when name is already bound in frame
\* 0, at any depth, which includes the library functions.
C19_RedefinitionExactly ==
  /\ found.op = "define" =>
       /\ found.failed <=> Len(found.before) \in Binding(found.before, found.name)
       /\ builder.scopes =
            IF found.failed THEN found.before
            ELSE WithSymbol(found.before, Len(found.before), found.name)
  /\ found.op = "defineGlobal" =>
       /\ found.failed <=> 1 \in Binding(found.before, found.name)
       /\ builder.scopes =
            IF found.failed THEN found.before
            ELSE WithSymbol(found.before, 1, found.name)

\* a library function was shadowed in an inner frame: define succeeded although
\* frame 0 binds the name
C19_Witness ==
  /\ found.op = "define" /\ found.name = "getint" /\ ~found.failed
  /\ Len(found.before) = 3
  /\ Binding(builder.scopes, "getint") = {1, 3}

\* C20: lookup(name) returns the binding of name in the innermost frame that
\* contains it and none when no frame contains it; after exitScope removes a
\* frame that shadowed name, lookup(name) returns the binding of the enclosing
\* frame, unchanged.
C20_LookupInnermost ==
  /\ found.op = "lookup" =>
       found.result = InnermostBinding(builder.scopes, found.name)
  /\ (found.op = "exitScope" /\ Len(found.before) > 1) =>
       \A n \in Names :
          lookup(builder, n) =
            InnermostBinding(SubSeq(found.before, 1, Len(found.before) - 1), n)

\* exitScope removed a frame that shadowed x: the binding of the global frame
\* is visible again
C20_Witness ==
  /\ found.op = "exitScope"
  /\ Binding(found.before, "x") = {1, 2}
  /\ lookup(builder, "x").irName = "@x_1"


-----------------------------------------------------------------------------
(* FuncDefAST::codeGen step by step: the function is entered, the loop of   *)
(* BlockAST::codeGen lowers the items of the body one iteration at a time,  *)
(* and the function is left. nchild counts the steps taken, so that the     *)
(* item lowered next is unit.block.items[nchild]. A panic ends the process: *)
(* no step follows it.                                                      *)

MaxBody == 2   \* block items in the body of a function lowered step by step

BodyItems ==
  Leaves
  \cup {ExprStmt(Null),
        Block(<<ReturnStmt(Null)>>),
        Block(<<AssignStmt(X, Number(1))>>),
        IfStmt(Binary("And", X, Y), ReturnStmt(Null), Null),
        IfStmt(Binary("And", X, Y), ReturnStmt(Null), ReturnStmt(Number(1))),
        IfStmt(Binary("And", X, Y), AssignStmt(X, Number(1)), Null),
        WhileStmt(Binary("And", X, Y), BreakStmt),
        WhileStmt(Binary("And", X, Y), Block(<<ReturnStmt(Null)>>)),
        WhileStmt(Binary("And", X, Y),
                  IfStmt(Binary("And", X, Y), BreakStmt, ContinueStmt)),
        IfStmt(Binary("And", X, Y), WhileStmt(Binary("And", X, Y), BreakStmt),
               ReturnStmt(Null)),
        Block(<<IfStmt(Binary("And", X, Y), ReturnStmt(Null), ReturnStmt(Null))>>)}

BodyFuncDefs ==
  {FuncDef(bt, "f", XY, Block(items)) :
     bt \in {"int", "void"},
     items \in UNION {SeqsOfLen(BodyItems, n) : n \in 1..MaxBody}}

\* resetCount, the header, the function symbol, the entry of the body
EnterFunc ==
  /\ nchild = 0
  /\ \E f \in BodyFuncDefs :
       /\ unit' = f
       /\ builder' = FuncEntry(FuncSymbol(FuncHeader(resetCount(builder), f,
                                  ParamHeader(resetCount(builder), f.params, 1)), f), f)
  /\ nchild' = nchild + 1
  /\ UNCHANGED <<flat, calc, run, generator, main, found>>

\* one iteration of the loop of BlockAST::codeGen over the body
LowerItem ==
  /\ unit.kind = "FuncDef"
  /\ nchild >= 1
  /\ nchild <= Len(unit.block.items)
  /\ builder.err = ""
  /\ builder' = IF BlockItemSkipped(builder, unit.block.items, nchild) THEN builder
                ELSE codeGen(builder, unit.block.items[nchild])
  /\ nchild' = nchild + 1
  /\ UNCHANGED <<unit, flat, calc, run, generator, main, found>>

\* the return of block->codeGen and the end of FuncDefAST::codeGen
LeaveFunc ==
  /\ unit.kind = "FuncDef"
  /\ nchild >= 1
  /\ nchild = Len(unit.block.items) + 1
  /\ builder.err = ""
  /\ builder' = FuncLeave(LeaveBlock(builder, [unit.block EXCEPT !.createScope = FALSE]),
                          unit)
  /\ nchild' = nchild + 1
  /\ UNCHANGED <<unit, flat, calc, run, generator, main, found>>

MaxChildren == 2   \* children of a compilation unit

CompUnit(children) == [kind |-> "CompUnit", children |-> children]

UnitChildren ==
  {Decl("int", <<ScalarDef("z", FALSE, Null)>>),
   FuncDef("int", "f", XY, Null),
   FuncDef("int", "f", XY,
           Block(<<WhileStmt(Binary("And", X, Y),
                             Block(<<Decl("int", <<ScalarDef("z", FALSE, Null)>>),
                                     BreakStmt>>))>>)),
   FuncDef("void", "h", <<>>,
           Block(<<IfStmt(Number(1), Block(<<ReturnStmt(Null)>>), Null)>>)),
   FuncDef("int", "g", <<FuncParam("int", "z_0", FALSE, <<>>)>>,
           Block(<<Decl("int", <<ScalarDef("z", FALSE, Number(1))>>),
                   ReturnStmt(LVal("z", <<>>))>>))}

CompUnits ==
  {CompUnit(c) : c \in UNION {SeqsOfLen(UnitChildren, n) : n \in 1..MaxChildren}}

\* CompUnitAST::codeGen: the children from i on, an empty line between two
RECURSIVE CompUnitChildren(_, _, _)
CompUnitChildren(b, children, i) ==
  IF i > Len(children) \/ b.err # "" THEN b
  ELSE CompUnitChildren(
         IF i < Len(children)
         THEN append(codeGen(b, children[i]), Line("", "", <<>>))
         ELSE codeGen(b, children[i]),
         children, i + 1)

CompUnitCodeGen(b, n) == ret(CompUnitChildren(b, n.children, 1), "")

\* CompUnitAST::codeGen on a whole unit
LowerUnit ==
  /\ nchild = 0
  /\ \E u \in CompUnits :
       /\ unit' = u
       /\ builder' = CompUnitCodeGen(builder, u)
  /\ nchild' = nchild + 1
  /\ UNCHANGED <<flat, calc, run, generator, main, found>>

NextBody == EnterFunc \/ LowerItem \/ LeaveFunc \/ LowerUnit

SpecBody == Init /\ [][NextBody]_vars

\* the body of unit is being lowered: the function is entered and not yet left
InBody ==
  /\ unit.kind = "FuncDef"
  /\ nchild >= 1
  /\ nchild <= Len(unit.block.items) + 1
  /\ builder.err = ""

\* the function is left
Left ==
  /\ unit.kind = "FuncDef"
  /\ nchild >= 1
  /\ nchild = Len(unit.block.items) + 2

LastLine == FunLines[Len(FunLines)]

\* the instructions among the emitted lines: labels, the header and the
\* closing brace are not instructions
Insts == SelectSeq(FunLines, LAMBDA l : l.op \notin {"label", "fun", "decl", "}"})

\* C21 as stated: while a function body is lowered the block-closed flag is
\* true if and only if the most recently emitted instruction is a terminator
\* (ret, jump or br).
C21_Original ==
  InBody => (isBlockClose(builder) <=>
               (Insts # <<>> /\ Insts[Len(Insts)].op \in Terminators))

\* C21: between the lowering of two items of a function body, where the
\* block-closed flag is read, the flag is true if and only if the most recently
\* emitted line is a terminator (ret, jump or br); a label emitted after a
\* terminator opens a new block and leaves the flag false.
C21_FlagTracksLastLine ==
  InBody => (isBlockClose(builder) <=> LastLine.op \in Terminators)

C21_Witness ==
  /\ InBody
  /\ nchild = 3
  /\ unit.block.items = <<IfStmt(Binary("And", X, Y), ReturnStmt(Null), Null),
                          ReturnStmt(Null)>>
  /\ isBlockClose(builder)
  /\ LastLine = Line("ret", "", <<>>)


-----------------------------------------------------------------------------
(* Array dimensions: definitions and parameters whose dimensions fold to    *)
(* zero, negative and positive lengths                                      *)

MaxDims == 2   \* dimensions of an array definition or parameter

DimExprs == {Number(0), Number(1), Number(2), Unary("Neg", Number(1))}

DimLists == UNION {SeqsOfLen(DimExprs, n) : n \in 1..MaxDims}

DimDecls ==
  {Decl("int", <<ArrayDef("a", c, dims, Null)>>) : c \in BOOLEAN, dims \in DimLists}

DimFuncDefs ==
  {FuncDef("int", "g", <<FuncParam("int", "p", TRUE, idx)>>,
           Block(<<Decl("int", <<ArrayDef("a", FALSE, dims, Null)>>)>>)) :
     idx \in {<<>>} \cup DimLists, dims \in DimLists}

\* one iteration of CompUnitAST::codeGen's loop, on a global array declaration
LowerDimDecl ==
  /\ nchild = 0
  /\ \E d \in DimDecls :
       /\ unit' = d
       /\ builder' = codeGen(builder, d)
  /\ nchild' = nchild + 1
  /\ UNCHANGED <<flat, calc, run, generator, main, found>>

\* the same on a function with an array parameter and a local array
LowerDimFunc ==
  /\ nchild = 0
  /\ \E f \in DimFuncDefs :
       /\ unit' = f
       /\ builder' = codeGen(builder, f)
  /\ nchild' = nchild + 1
  /\ UNCHANGED <<flat, calc, run, generator, main, found>>

NextDims == LowerDimDecl \/ LowerDimFunc

SpecDims == Init /\ [][NextDims]_vars

\* the array types of at most n dimensions with lengths in lens
RECURSIVE ArraysOver(_, _)
ArraysOver(lens, n) ==
  IF n = 0 THEN {IntType}
  ELSE {IntType} \cup {ArrayType(t, l) : t \in ArraysOver(lens, n - 1), l \in lens}

RECURSIVE HasBadLength(_)
HasBadLength(ty) ==
  /\ is_array(ty)
  /\ (ty.len <= 0 \/ HasBadLength(ty.base))

\* the renderings [T, N] with some N <= 0, alone, behind a pointer, and in
\* the parameter list of a header
BadTypeTexts ==
  LET bad == {t \in ArraysOver(-1..2, MaxDims) : HasBadLength(t)}
  IN  {toKoopa(t) : t \in bad}
      \cup {toKoopa(PtrType(t)) : t \in bad}
      \cup {"@p: " \o toKoopa(PtrType(t)) : t \in bad}

\* C22: no array type with a length N <= 0 reaches the emitted IR: no operand
\* of an emitted line is the text of a type [T, N] with N <= 0, for array
\* definitions and array-typed parameters alike.
C22_PositiveLengths ==
  \A i \in 1..Len(builder.buffer) :
    \A j \in 1..Len(builder.buffer[i].args) :
      builder.buffer[i].args[j] \notin BadTypeTexts


-----------------------------------------------------------------------------
(* Properties of the stack ranges                                           *)

\* the bytes reserved by the pre-pass for the result of inst
SlotSize(inst) ==
  IF inst.kind = "alloc" THEN get_type_size(inst.ty.target) ELSE 4

\* the ranges [a, a + alen) and [b, b + blen) have no byte in common
Apart(a, alen, b, blen) == a + alen <= b \/ b + blen <= a

\* the parameters that arrive in a0-a7
RegParams == 0..(Max(unit.nparams, 0) - 1) \cap 0..7

\* C23: the 4 bytes at offset i*4 + args_size into which parameter i < 8 is
\* spilled overlap neither the slot of an instruction result of the function
\* nor the saved-ra slot.
C23_ParamSlotsApart ==
  Visited =>
    \A i \in RegParams :
      /\ \A k \in NonUnit(unit.insts) :
           Apart(generator.paramMap[i + 1], 4,
                 generator.stkMap[k], SlotSize(unit.insts[k]))
      /\ HasCall(unit.insts) =>
           Apart(generator.paramMap[i + 1], 4, generator.stk_frame_size - 4, 4)


-----------------------------------------------------------------------------
(* Properties of assignments                                                *)

\* the function lowered last ends with an assignment
AssignCase ==
  /\ nchild = 1
  /\ unit \in LValFuncDefs
  /\ unit.block.items[Len(unit.block.items)].kind = "Assign"

Assigned == unit.block.items[Len(unit.block.items)]

\* the identifiers the body of unit can see, and the constants among them
DeclaredIn(f) ==
  {f.params[i].ident : i \in 1..Len(f.params)}
  \cup {f.block.items[k].defs[1].ident :
          k \in {j \in 1..Len(f.block.items) : f.block.items[j].kind = "Decl"}}

ConstIn(f) ==
  {f.block.items[k].defs[1].ident :
     k \in {j \in 1..Len(f.block.items) :
              /\ f.block.items[j].kind = "Decl"
              /\ f.block.items[j].defs[1].is_const}}

\* the lines of the assignment: after the header, the entry label, the alloc
\* and store of each parameter and the alloc of the array, before the implicit
\* ret and the closing brace
AssignLines == SubSeq(FunLines, 2 * Len(unit.params) + 4, Len(FunLines) - 2)

Walk(al) == {i \in 1..Len(al) : al[i].op \in {"getptr", "getelemptr"}}

OpCount(al, op) == Cardinality({i \in 1..Len(al) : al[i].op = op})

\* the final address of the walk al: the result of its last step, else the
\* loaded pointer of a pointer parameter, else the IR name of the variable
FinalAddress(al, id) ==
  IF Walk(al) # {} THEN al[CHOOSE i \in Walk(al) : \A j \in Walk(al) : j <= i].res
  ELSE IF id \in {"p", "q"} THEN al[1].res
  ELSE IF id = "x" THEN "%0" ELSE "@a_0"

\* the lowered value of the right-hand side: the literal or the call result
AssignedValue(al, e) ==
  IF e.kind = "Number" THEN ToString(e.val)
  ELSE al[CHOOSE i \in 1..Len(al) : al[i].op = "call"].res

OneStoreLast(al, n) ==
  /\ Len(al) >= 1
  /\ al[Len(al)].op = "store"
  /\ OpCount(al, "store") = 1
  /\ OpCount(al, "call") = (IF n.expr.kind = "FuncCall" THEN 1 ELSE 0)
  /\ Cardinality(Walk(al)) = Len(n.lval.indices)
  /\ al[Len(al)].args = <<AssignedValue(al, n.expr), FinalAddress(al, n.lval.ident)>>

\* C24: lowering an assignment x[i1]...[in] = e fails when x is undefined or
\* a constant; in every other case it emits the address walk and then exactly
\* one store of the value of e to the final address, and lowers e once.
C24_AssignStoresOnce ==
  AssignCase =>
    IF Assigned.lval.ident \notin DeclaredIn(unit) \/ Assigned.lval.ident \in ConstIn(unit)
    THEN builder.err # ""
    ELSE builder.err = "" /\ OneStoreLast(AssignLines, Assigned)


-----------------------------------------------------------------------------
(* Properties of the scratch register t2                                    *)

Generated == nchild = 1 /\ unit \in RawFunctions \cup PtrFunctions

\* line names register r as an operand
NamesReg(line, r) ==
  \E f \in DOMAIN line \cap {"rd", "rs", "rt", "base", "src"} : line[f] = r

\* li t2, imm at line j of B
LiT2(B, j) ==
  /\ j >= 1
  /\ j <= Len(B)
  /\ B[j].op = "li"
  /\ B[j].rd = "t2"

\* the large-immediate sequence of emitAddi at lines j, j + 1
AddiSeq(B, j) ==
  /\ LiT2(B, j)
  /\ ~isIn12BitRange(B[j].imm)
  /\ j + 1 <= Len(B)
  /\ B[j + 1].op = "add"
  /\ B[j + 1].rt = "t2"
  /\ B[j + 1].rd # "t2"
  /\ B[j + 1].rs # "t2"

\* the large-immediate sequence of emitLw (op = "lw") or emitSw (op = "sw") at
\* lines j, j + 1, j + 2
MemSeq(B, j, op) ==
  /\ LiT2(B, j)
  /\ ~isIn12BitRange(B[j].imm)
  /\ j + 2 <= Len(B)
  /\ B[j + 1].op = "add"
  /\ B[j + 1].rd = "t2"
  /\ B[j + 1].rs = "t2"
  /\ B[j + 1].rt # "t2"
  /\ B[j + 2].op = op
  /\ B[j + 2].base = "t2"
  /\ B[j + 2].offset = 0
  /\ ~NamesReg([B[j + 2] EXCEPT !.base = ""], "t2")

\* li t2, stride; mul t1, t1, t2 of get_elem_ptr and get_ptr at lines j, j + 1
StrideSeq(B, j) ==
  /\ LiT2(B, j)
  /\ j + 1 <= Len(B)
  /\ B[j + 1] = [op |-> "mul", rd |-> "t1", rs |-> "t1", rt |-> "t2"]

\* line i belongs to a large-immediate sequence of a helper
InHelper(B, i) ==
  \/ \E j \in {i - 1, i} : AddiSeq(B, j)
  \/ \E j \in {i - 2, i - 1, i} : MemSeq(B, j, "lw") \/ MemSeq(B, j, "sw")

\* C25 as stated: t2 is named in the emitted assembly only inside the
\* large-immediate sequences of emitAddi, emitLw and emitSw.
C25_Original ==
  Generated =>
    \A i \in 1..Len(generator.buffer) :
      NamesReg(generator.buffer[i], "t2") => InHelper(generator.buffer, i)

\* C25: t2 is named in the emitted assembly only inside the large-immediate
\* sequences of emitAddi, emitLw and emitSw and in the pair li t2, stride;
\* mul t1, t1, t2 of an address step. Each of these sequences sets t2 with li
\* and reads it in the next lines, and writes no register but t2 and the
\* destination of the helper, so no value loaded into t0, t1 or an argument
\* register is overwritten by a use of t2 before it is consumed.
C25_ScratchSequences ==
  Generated =>
    \A i \in 1..Len(generator.buffer) :
      NamesReg(generator.buffer[i], "t2") =>
        \/ InHelper(generator.buffer, i)
        \/ \E j \in {i - 1, i} : StrideSeq(generator.buffer, j)

\* the element of a 4096-byte array: the stride pair, then the result stored
\* above offset 2047
C25_Witness ==
  /\ Generated
  /\ unit \in PtrFunctions
  /\ generator.err = ""
  /\ \E j \in 1..Len(generator.buffer) :
       /\ StrideSeq(generator.buffer, j)
       /\ MemSeq(generator.buffer, j + 3, "sw")
       /\ generator.buffer[j + 5].src = "t0"


-----------------------------------------------------------------------------
(* Properties of the end of a function                                      *)

\* the step that leaves the function whose body is lowered
LeaveStep ==
  /\ InBody
  /\ nchild = Len(unit.block.items) + 1
  /\ nchild' = nchild + 1

\* the return FuncDefAST::codeGen appends for the return type of f
RetOf(f) == IF f.btype = "void" THEN Line("ret", "", <<>>) ELSE Line("ret", "", <<"0">>)

\* every line followed by a label or by the closing brace is a terminator,
\* but for the header that precedes the entry label
BlocksTerminated(fl) ==
  \A i \in 2..(Len(fl) - 1) :
    fl[i + 1].op \in {"label", "}"} => fl[i].op \in Terminators

\* C26: when FuncDefAST::codeGen leaves a function with a body it appends
\* exactly one `ret 0` (int) or `ret` (void) if the body left the current block
\* open and nothing if the body closed it, then the closing brace; the last
\* instruction before the brace is a terminator and every labelled basic
\* block of the function ends with a terminator.
C26_FunctionEndsTerminated ==
  [][LeaveStep =>
       /\ LinesOf(builder') =
            LinesOf(builder)
            \o (IF isBlockClose(builder) THEN <<>> ELSE <<RetOf(unit)>>)
            \o <<Line("}", "", <<>>)>>
       /\ BlocksTerminated(LinesOf(builder'))]_vars

\* an if without else whose then branch returns: the block after the if is
\* open and gets the implicit return
C26_Witness ==
  /\ Left
  /\ unit.btype = "int"
  /\ unit.block.items = <<IfStmt(Binary("And", X, Y), ReturnStmt(Null), Null)>>
  /\ SubSeq(FunLines, Len(FunLines) - 3, Len(FunLines)) =
       <<Line("ret", "", <<>>), Line("label", "%end_1", <<>>),
         Line("ret", "", <<"0">>), Line("}", "", <<>>)>>


-----------------------------------------------------------------------------
(* The comparison sequences, executed on 32-bit registers. A register holds *)
(* a signed 32-bit value.                                                   *)

MaxInt32 == 2147483647
MinInt32 == -MaxInt32 - 1

MaxOperand == 2   \* operands near zero: -MaxOperand..MaxOperand

\* operands near zero and at both ends of the 32-bit range
Operands32 ==
  (-MaxOperand..MaxOperand) \cup {MinInt32, MinInt32 + 1, MaxInt32 - 1, MaxInt32}

CompareTags == {"lt", "gt", "le", "ge", "eq", "ne"}

\* the low 31 bits of a signed 32-bit value
Low31(a) == IF a >= 0 THEN a ELSE (a + MaxInt32) + 1

\* bitwise exclusive or of the n low bits of x and y
RECURSIVE XorBits(_, _, _)
XorBits(x, y, n) ==
  IF n = 0 THEN 0
  ELSE (((x % 2) + (y % 2)) % 2) + 2 * XorBits(x \div 2, y \div 2, n - 1)

\* xor of two signed 32-bit values
Xor32(a, b) ==
  IF (a < 0) = (b < 0) THEN XorBits(Low31(a), Low31(b), 31)
  ELSE (XorBits(Low31(a), Low31(b), 31) - MaxInt32) - 1

\* one RV32 instruction on the register file regs
RegStep(regs, line) ==
  CASE line.op = "li" -> [regs EXCEPT ![line.rd] = line.imm]
    [] line.op = "slt" ->
         [regs EXCEPT ![line.rd] = IF regs[line.rs] < regs[line.rt] THEN 1 ELSE 0]
    [] line.op = "sgt" ->
         [regs EXCEPT ![line.rd] = IF regs[line.rs] > regs[line.rt] THEN 1 ELSE 0]
    [] line.op = "xor" ->
         [regs EXCEPT ![line.rd] = Xor32(regs[line.rs], regs[line.rt])]
    [] line.op = "seqz" -> [regs EXCEPT ![line.rd] = IF regs[line.rs] = 0 THEN 1 ELSE 0]
    [] line.op = "snez" -> [regs EXCEPT ![line.rd] = IF regs[line.rs] # 0 THEN 1 ELSE 0]
    [] OTHER -> regs

RECURSIVE RegRun(_, _, _)
RegRun(regs, lines, j) ==
  IF j > Len(lines) THEN regs
  ELSE RegRun(RegStep(regs, lines[j]), lines, j + 1)

\* visit(koopa_raw_binary_t) on a comparison of two integer constants, and
\* the run of the lines it emits
VisitCompare ==
  /\ nchild = 0
  /\ \E op \in CompareTags, a \in Operands32, b \in Operands32 :
       /\ unit' = RawInstOn("binary", IntType, <<Integer(a), Integer(b)>>)
                    @@ [op |-> op]
       /\ generator' = visitBinary(generator, unit')
       /\ run' = [status |-> "asm",
                  regs |-> RegRun([r \in {"t0", "t1", "t2"} |-> 0],
                                  generator'.buffer, 1)]
  /\ nchild' = nchild + 1
  /\ UNCHANGED <<builder, flat, calc, main, found>>

NextCompare == VisitCompare

SpecCompare == Init /\ [][NextCompare]_vars

\* the comparison op holds of a and b
Holds(op, a, b) ==
  CASE op = "lt" -> a < b
    [] op = "gt" -> a > b
    [] op = "le" -> a <= b
    [] op = "ge" -> a >= b
    [] op = "eq" -> a = b
    [] op = "ne" -> a # b

\* C27: the sequence emitted for lt, gt, le, ge, eq and ne on 32-bit signed
\* operands a and b leaves 1 in t0 when the comparison of a with b holds and 0
\* otherwise.
C27_CompareSetsT0 ==
  run.status = "asm" =>
    run.regs["t0"] =
      IF Holds(unit.op, unit.args[1].value, unit.args[2].value) THEN 1 ELSE 0

\* MinInt32 <= MaxInt32, whose difference does not fit 32 bits
C27_Witness ==
  /\ run.status = "asm"
  /\ unit.op = "le"
  /\ unit.args = <<Integer(MinInt32), Integer(MaxInt32)>>
  /\ generator.buffer[Len(generator.buffer)] = OnT0("seqz")
  /\ run.regs["t0"] = 1


-----------------------------------------------------------------------------
(* Properties of the scope depth and of the loop-context stack              *)

\* the step that lowers an item of kind Block, If or While
NodeStep ==
  /\ InBody
  /\ nchild <= Len(unit.block.items)
  /\ nchild' = nchild + 1
  /\ unit.block.items[nchild].kind \in {"Block", "If", "While"}
  /\ ~isBlockClose(builder)

\* the step that lowers a whole compilation unit
UnitStep ==
  /\ nchild = 0
  /\ unit'.kind = "CompUnit"

Depths(b) == <<Len(b.scopes), Len(b.loopstk)>>

\* C28: when the lowering of a Block, If or While completes without error the
\* depth of the symbol table and the depth of the loop-context stack are what
\* they were before the node was lowered; the same holds of a FuncDef, which
\* is entered at global depth with no loop context; after a whole CompUnit
\* the symbol table is at depth 1 and the loop-context stack is empty.
C28_DepthsRestored ==
  [][/\ (NodeStep /\ builder'.err = "") => Depths(builder') = Depths(builder)
     /\ LeaveStep => Depths(builder') = Depths(KoopaBuilder)
     /\ (UnitStep /\ builder'.err = "") => Depths(builder') = <<1, 0>>]_vars

\* a while loop whose body is a block, lowered inside the scope of a function
C28_Witness ==
  /\ InBody
  /\ nchild = 2
  /\ unit.block.items[1] = WhileStmt(Binary("And", X, Y), Block(<<ReturnStmt(Null)>>))
  /\ Depths(builder) = <<2, 0>>
  /\ \E i \in 1..Len(FunLines) : FunLines[i].op = "ret"


-----------------------------------------------------------------------------
(* Properties of the IR names of a compilation unit                         *)

\* the names newReg can have given out in a buffer of n lines
RegNames(n) == {"%" \o ToString(k) : k \in 0..n}

\* the IR names of the global variables defined in the lines B
GlobalNames(B) == {B[i].res : i \in {k \in 1..Len(B) : B[k].op = "global"}}

\* the header line of the function that line j of B belongs to
HeaderOf(B, j) ==
  B[CHOOSE i \in 1..j : B[i].op = "fun" /\ \A k \in (i + 1)..j : B[k].op # "fun"]

\* the IR names @ident of the parameters of the function with header h
ParamNames(u, h) ==
  UNION {{"@" \o u.children[c].params[p].ident :
            p \in 1..Len(u.children[c].params)} :
         c \in {k \in 1..Len(u.children) :
                  /\ u.children[k].kind = "FuncDef"
                  /\ "@" \o u.children[k].ident = h.res}}

\* the lines of B that allocate a local variable or a scratch cell: the
\* result of an alloc that is not a register
LocalAllocs(B) ==
  {j \in 1..Len(B) : B[j].op = "alloc" /\ B[j].res \notin RegNames(Len(B))}

\* C29: the name @ident_k of a local variable or short-circuit scratch cell
\* of a function is equal neither to the IR name of a global variable nor to
\* the @name of a parameter of that function.
C29_NamesDistinct ==
  (unit.kind = "CompUnit" /\ builder.err = "") =>
    \A j \in LocalAllocs(builder.buffer) :
      /\ builder.buffer[j].res \notin GlobalNames(builder.buffer)
      /\ builder.buffer[j].res
           \notin ParamNames(unit, HeaderOf(builder.buffer, j))


-----------------------------------------------------------------------------
(* Properties of the instruction slots                                      *)

\* a function has gone through the pre-pass and the shift by args_size
Framed == nchild = 1 /\ unit \in RawFunctions \cup PtrFunctions

\* C30: the stack ranges the pre-pass assigns to distinct value-producing
\* instructions (the size of the pointee for an alloc, 4 bytes otherwise) are
\* pairwise disjoint, lie at or above the outgoing-argument area
\* [0, args_size) and, when the function contains a call, entirely below the
\* saved-ra slot at total - 4.
C30_SlotsDisjoint ==
  Framed =>
    \A k \in NonUnit(unit.insts) :
      /\ \A l \in NonUnit(unit.insts) \ {k} :
           Apart(generator.stkMap[k], SlotSize(unit.insts[k]),
                 generator.stkMap[l], SlotSize(unit.insts[l]))
      /\ generator.stkMap[k] >= generator.args_size
      /\ HasCall(unit.insts) =>
           generator.stkMap[k] + SlotSize(unit.insts[k])
             <= generator.stk_frame_size - 4

=============================================================================
